---- MODULE Spec2Model ----
(***************************************************************************)
(* A model of the conversational session and request-orchestration layer   *)
(* of the Webforge Discord bot (bot.py and the two process managers):      *)
(* the per-channel chat history with its token-budgeted prompt assembly,   *)
(* the managed backend processes (KoboldCpp for text, Forge for images)    *)
(* and their idle supervisors.                                             *)
(*                                                                         *)
(* Python strings are TLA+ strings: f-strings are \o, len is Len.          *)
(* asyncio runs every coroutine on one thread, so a coroutine is modelled  *)
(* as one action per stretch of code between two awaits.                   *)
(***************************************************************************)
EXTENDS Integers, Sequences, FiniteSets, TLC

VARIABLES
    CONTEXT_TOKEN_LIMIT,            \* config: fixed by Init
    KOBOLDCPP_IDLE_TIMEOUT_MINUTES, \* config: fixed by Init
    FORGE_IDLE_TIMEOUT_MINUTES,     \* config: fixed by Init
    KOBOLDCPP_LAUNCH_SCRIPT_PATH,   \* config: "" when unset or not on disk
    FORGE_LAUNCH_SCRIPT_PATH,       \* config: "" when unset or not on disk
    KOBOLDCPP_PROFILES,             \* config: profile_path of "default", "" when
                                    \* the profile or its file is missing
    MAX_CONCURRENT_TTS,             \* config: fixed by Init (config.py:90)
    chat_histories,                 \* bot.py:71
    req,                            \* on_message/generate_chat_response invocations
    now,                            \* datetime.datetime.now(), in polls of 60 s
    last_kobold_use_time,           \* bot.py:75
    last_forge_use_time,            \* bot.py:73
    kobold_process,                 \* kobold_process_manager._kobold_process
    forge_process,                  \* process_manager._forge_process
    kobold_online,                  \* the KoboldCpp API answers HTTP
    forge_online,                   \* the Forge API answers HTTP
    kobold_idle_task,               \* bot.py:76, 0 is None
    forge_idle_task,                \* bot.py:74, 0 is None
    tasks,                          \* the asyncio tasks running the idle checks
    cmd,                            \* command handlers suspended at an await
    bot_closed,                     \* bot.is_closed()
    tts_queue,                      \* bot.py:79, the asyncio.Queue
    tts_processing,                 \* bot.py:80
    tts_workers,                    \* the tasks running process_tts_queue
    tts_synth,                      \* jobs whose synthesis subprocess is running
    tts_accepted,                   \* jobs add_to_tts_queue has put so far
    tts_taken,                      \* the jobs in the order tts_queue.get gave them
    user_stats,                     \* bot.py:70, the dict of generation counters
    stats_file,                     \* the JSON object in STATS_FILE, None: no file
    listening_channels,             \* bot.py:72, {channel_id: asyncio.Task}
    timers,                         \* the asyncio tasks running listening_timer
    popens,                         \* the subprocess.Popen objects created so far
    threads,                        \* the threads inside start_* and stop_*
    event                           \* what the idle check that just ran did

vars == <<CONTEXT_TOKEN_LIMIT, KOBOLDCPP_IDLE_TIMEOUT_MINUTES,
          FORGE_IDLE_TIMEOUT_MINUTES, KOBOLDCPP_LAUNCH_SCRIPT_PATH,
          FORGE_LAUNCH_SCRIPT_PATH, chat_histories, req, now,
          last_kobold_use_time, last_forge_use_time, kobold_process,
          forge_process, kobold_online, forge_online, kobold_idle_task,
          forge_idle_task, tasks, cmd, bot_closed, event,
          MAX_CONCURRENT_TTS, tts_queue, tts_processing, tts_workers,
          tts_synth, tts_accepted, tts_taken, KOBOLDCPP_PROFILES,
          user_stats, stats_file, listening_channels, timers, popens,
          threads>>

configVars == <<CONTEXT_TOKEN_LIMIT, KOBOLDCPP_IDLE_TIMEOUT_MINUTES,
                FORGE_IDLE_TIMEOUT_MINUTES, KOBOLDCPP_LAUNCH_SCRIPT_PATH,
                FORGE_LAUNCH_SCRIPT_PATH, MAX_CONCURRENT_TTS,
                KOBOLDCPP_PROFILES>>
ttsVars == <<tts_queue, tts_processing, tts_workers, tts_synth, tts_accepted,
             tts_taken>>
statsVars == <<user_stats, stats_file>>
listenVars == <<listening_channels, timers>>
threadVars == <<popens, threads>>
chatVars == <<chat_histories, req>>
koboldVars == <<kobold_process, kobold_online>>
forgeVars == <<forge_process, forge_online>>
taskVars == <<kobold_idle_task, forge_idle_task, tasks>>

----------------------------------------------------------------------------
(* Bounds of the model.                                                    *)

MaxLimit == 64        \* CONTEXT_TOKEN_LIMIT ranges over 0..MaxLimit
MaxExchanges == 2     \* exchanges already stored when a prompt is assembled
MaxHistory == 4       \* turns a channel's list may hold before chat stops
MaxStored == 2        \* the same, where the backends are what is explored
MaxInflight == 2      \* concurrent chat generations
MaxTime == 2          \* the clock stops here
MaxTasks == 2         \* idle-check task objects alive at once per backend
MaxCapacity == 2      \* MAX_CONCURRENT_TTS ranges over 1..MaxCapacity
MaxJobs == 3          \* speech requests accepted in one behaviour
MaxWorkers == 2       \* process_tts_queue task objects alive at once
MaxThreads == 2       \* worker threads inside one process manager at once
MaxTimers == 3        \* listening_timer task objects alive at once
MaxSentinels == 1     \* shutdown signals on_shutdown sends in one behaviour

Channels == {"c1", "c2"}
Slots == 1 .. MaxInflight
Backends == {"kobold", "forge"}
TaskIds == 1 .. MaxTasks
WorkerIds == 1 .. MaxWorkers
TimerIds == 1 .. MaxTimers
\* The Popen objects a run creates, in the order of their creation.
PidNames == <<"p1", "p2">>
Pids == {PidNames[k] : k \in DOMAIN PidNames}
\* 0 is the thread of the event loop, the others run asyncio.to_thread calls.
LoopThread == 0
ThreadIds == LoopThread .. MaxThreads
NoThread == [pc |-> "idle"]

None == <<>>          \* Python's None where the other values are <<v>>

----------------------------------------------------------------------------
(* config.py                                                               *)

CHARACTER_NAME == "Gemma"
\* The persona of config.py is several hundred characters; a short one keeps
\* the token counts of the model small.
CHARACTER_PERSONA == "Helpful."

\* MAX_CONCURRENT_TTS = 1
ConfiguredTtsCapacity == 1
\* The profile file of KOBOLDCPP_PROFILES["default"] where it is configured
DefaultProfile == "default.kcpps"

Authors == {"Al"}

\* str(ctx.author.id) of the user who asks for images
Requester == "1001"

\* listening_channels = {}, bot.py:72
EmptyDict == [k \in {} |-> 0]

\* No listening_timer task behind this task object.
NoTimer == [pc |-> "unborn", channel |-> "", cancelling |-> FALSE,
            outcome |-> "", warnings |-> 0, notices |-> 0, clears |-> 0]

\* A dict of generation counters without entries: user_stats = {}, bot.py:70
EmptyStats == [u \in {} |-> 0]

\* dict.get(key, default)
dict_get(dict, key, default) == IF key \in DOMAIN dict THEN dict[key] ELSE default

\* load_stats, bot.py:156-161: the file's JSON object, {} without a file
load_stats(file) == IF file = None THEN EmptyStats ELSE file[1]

\* save_stats, bot.py:163-166
save_stats(stats_dict) == <<stats_dict>>

\* user_stats[user_id_str] = user_stats.get(user_id_str, 0) + 1, bot.py:415
Increment(stats, user_id_str) ==
    [u \in DOMAIN stats \cup {user_id_str} |->
        IF u = user_id_str THEN dict_get(stats, user_id_str, 0) + 1
        ELSE stats[u]]

\* Python's truth value of an object that is None (<<>>) or is not
Truthy(value) == value # None

\* Texts typed by users; "time?" contains 'time' and gets the clock injected.
UserMessages == {"hi", "tell me a long story", "time?"}
\* Texts returned by KoboldAPIClient.generate_text, stripped and non-empty.
Replies == {"ok", "once upon a time, long ago"}
\* Contents of user_profiles/<id>.txt after strip(); "" when there is no file.
Profiles == {"", "[[ artist ]]"}

----------------------------------------------------------------------------
(* Token Budgeter and Context Window Assembler (generate_chat_response).   *)

get_token_count(text) == Len(text) \div 4

\* 'date' in user_message.lower() or 'time' in user_message.lower()
MentionsDateOrTime(user_message) == user_message \in {"time?"}

\* bot.py:464-485; the formatted time is a fixed-width text.
InjectTime(user_message) ==
    IF MentionsDateOrTime(user_message)
    THEN "[Current Time in America/Chicago: Mon 09:00 AM CST] " \o user_message
    ELSE user_message

user_turn_prompt(display_name, user_profile_text, user_message) ==
    IF user_profile_text # ""
    THEN "[User Profile for " \o display_name \o ": [[" \o user_profile_text
         \o "]]] " \o display_name \o ": " \o user_message
    ELSE display_name \o ": " \o user_message

current_turn_text(display_name, user_profile_text, user_message) ==
    "<start_of_turn>user\n"
    \o user_turn_prompt(display_name, user_profile_text, user_message)
    \o "<end_of_turn>"

persona_text == "You are " \o CHARACTER_NAME \o ". " \o CHARACTER_PERSONA \o "\n\n"

\* The wire form of one stored turn, bot.py:515-516.
msg_text(msg) ==
    LET user_prefix == IF msg.user_name # CHARACTER_NAME
                       THEN msg.user_name \o ": " ELSE ""
        role == IF msg.user_name = CHARACTER_NAME THEN "model" ELSE "user"
    IN "<start_of_turn>" \o role \o "\n" \o user_prefix \o msg.text
       \o "<end_of_turn>"

\* A variant that appends at the back, giving newest-first order.
InsertBack(history_conversation, text) == Append(history_conversation, text)

\* history_conversation.insert(0, msg_text)
InsertFront(history_conversation, text) == <<text>> \o history_conversation

\* A variant that tests the budget before counting the turn.
OverBudgetBeforeAdding(tokens_used, msg_tokens, limit) == tokens_used > limit

\* A variant that also stops at a turn that fills the budget exactly.
OverBudgetAtLimit(tokens_used, msg_tokens, limit) ==
    tokens_used + msg_tokens >= limit

\* A variant that tests each turn on its own against the limit.
OverBudgetTurnAlone(tokens_used, msg_tokens, limit) == msg_tokens > limit

\* tokens_used + msg_tokens > CONTEXT_TOKEN_LIMIT: break
OverBudget(tokens_used, msg_tokens, limit) == tokens_used + msg_tokens > limit

\* The loop of bot.py:513-520 from index i of history down to 1; the result
\* is the pair of locals (history_conversation, tokens_used) after the loop.
RECURSIVE WalkHistory(_, _, _, _, _)
WalkHistory(history, i, history_conversation, tokens_used, limit) ==
    IF i = 0
    THEN [history_conversation |-> history_conversation,
          tokens_used |-> tokens_used]
    ELSE LET text == msg_text(history[i])
             msg_tokens == get_token_count(text)
         IN IF OverBudget(tokens_used, msg_tokens, limit)
            THEN [history_conversation |-> history_conversation,
                  tokens_used |-> tokens_used]
            ELSE WalkHistory(history, i - 1,
                             InsertFront(history_conversation, text),
                             tokens_used + msg_tokens, limit)

\* "\n".join(parts)
RECURSIVE Join(_)
Join(parts) ==
    IF parts = <<>> THEN ""
    ELSE IF Len(parts) = 1 THEN parts[1]
    ELSE parts[1] \o "\n" \o Join(Tail(parts))

\* A variant that estimates the persona and the current turn one by one.
InitialTokensSeparately(current) ==
    get_token_count(persona_text) + get_token_count(current)

\* tokens_used before the loop, bot.py:511
InitialTokens(current) == get_token_count(persona_text \o current)

\* bot.py:522
FullPrompt(history_conversation, current) ==
    persona_text \o Join(history_conversation) \o "\n" \o current
    \o "\n<start_of_turn>model\n"

\* The locals of generate_chat_response when it reaches its await, bot.py:509-522.
AssemblePrompt(history, display_name, user_profile_text, user_message, limit) ==
    LET current == current_turn_text(display_name, user_profile_text, user_message)
        walked == WalkHistory(history, Len(history), <<>>,
                              InitialTokens(current), limit)
    IN [current_turn_text |-> current,
        history_conversation |-> walked.history_conversation,
        tokens_used |-> walked.tokens_used,
        full_prompt |-> FullPrompt(walked.history_conversation, current)]

----------------------------------------------------------------------------
(* Conversation History Store: chat_histories maps a channel to a Python   *)
(* list; None is "no key", <<turns>> a key with its list.                  *)
(* generate_chat_response keeps the list in its local `history` across its *)
(* await, so the list can outlive its key: `attached` says whether the     *)
(* local still is the list stored under the channel's key.                 *)

IdleReq == [pc |-> "idle"]

\* get(channel_id): the turns stored for a channel, empty when there is no key
Stored(ch) == IF chat_histories[ch] = None THEN <<>> ELSE chat_histories[ch][1]

Turn(user_name, text) == [user_name |-> user_name, text |-> text]

\* A variant that stores the reply before the message it answers.
AppendReplyFirst(history, display_name, user_message, response_text) ==
    Append(Append(history, Turn(CHARACTER_NAME, response_text)),
           Turn(display_name, user_message))

\* A variant that stores the user's turn and leaves the reply out.
AppendUserTurnOnly(history, display_name, user_message, response_text) ==
    Append(history, Turn(display_name, user_message))

\* history.append(user turn); history.append(model turn), bot.py:527-528
AppendExchange(history, display_name, user_message, response_text) ==
    Append(Append(history, Turn(display_name, user_message)),
           Turn(CHARACTER_NAME, response_text))

\* del chat_histories[channel_id], bot.py:787
DeleteHistory(histories, ch) == [histories EXCEPT ![ch] = None]

\* chat_histories.clear(), bot.py:582 and bot.py:882
ClearAll(histories) == [ch \in Channels |-> None]

\* A variant in which a suspended generation never loses its list.
StaysAttached(requests, histories) == requests

\* The suspended generations whose key has just gone hold an orphaned list.
Detach(requests, histories) ==
    [s \in Slots |->
        IF requests[s].pc = "generating" /\ histories[requests[s].channel] = None
        THEN [requests[s] EXCEPT !.attached = FALSE]
        ELSE requests[s]]

\* Turns the suspended generations will still append to the list of ch.
Pending(ch) == 2 * Cardinality({s \in Slots : /\ req[s].pc = "generating"
                                             /\ req[s].channel = ch
                                             /\ req[s].attached})

\* event: what the step just taken did, for the steps of the idle checks:
\* "nothing" (the poll passed), "notify" (the poll printed "... has been idle
\* for over N minutes. Shutting down." and awaits the notice), "shutdown" (the
\* same without a status channel: the backend is stopped in that poll),
\* "shutdown_after_notice", "send_error"; Quiet for every other step.
Ev(op, arg) == [op |-> op, arg |-> arg]
Quiet == Ev("", "")

----------------------------------------------------------------------------
(* on_message, chat path (bot.py:610-733) with generate_chat_response      *)
(* (bot.py:459-531) up to its await on kobold_api.generate_text.           *)

\* KoboldAPIClient.is_online: the GET of the base URL answers 200
kobold_api_is_online == kobold_online

\* forge_api.is_online(), called at bot.py:361 and bot.py:923
forge_api_is_online == forge_online

\* global last_kobold_use_time; last_kobold_use_time = now, bot.py:461-462
StampOnEntry(t) == <<t>>

\* The invocations of on_message for earlier messages of channel ch that
\* have not returned yet.
InFlightFor(ch) == {s \in Slots : req[s].pc # "idle" /\ req[s].channel = ch}

GenBegin(s, ch, author, profile, message, cap) ==
    /\ ~bot_closed
    /\ req[s].pc = "idle"
    /\ kobold_api_is_online
    /\ LET histories == IF chat_histories[ch] = None
                        THEN [chat_histories EXCEPT ![ch] = <<<<>>>>]
                        ELSE chat_histories
           history == histories[ch][1]
           user_message == InjectTime(message)
           locals == AssemblePrompt(history, author, profile, user_message,
                                    CONTEXT_TOKEN_LIMIT)
       IN /\ Len(history) + Pending(ch) + 2 <= cap
          /\ last_kobold_use_time' = StampOnEntry(now)
          /\ chat_histories' = histories
          /\ req' = [req EXCEPT ![s] =
                 [pc |-> "generating", channel |-> ch, author |-> author,
                  user_profile_text |-> profile,
                  user_message |-> user_message, attached |-> TRUE,
                  behind |-> InFlightFor(ch) \ {s}, started |-> now,
                  current_turn_text |-> locals.current_turn_text,
                  history_conversation |-> locals.history_conversation,
                  tokens_used |-> locals.tokens_used,
                  full_prompt |-> locals.full_prompt]]
    /\ event' = Quiet
    /\ UNCHANGED <<configVars, threadVars, listenVars, ttsVars, statsVars,
                   now, last_forge_use_time, koboldVars, forgeVars, taskVars,
                   cmd, bot_closed>>

\* The message is a chat trigger but the API does not answer, bot.py:641-643.
ChatOffline(ch) ==
    /\ ~bot_closed
    /\ ~kobold_api_is_online
    /\ event' = Quiet
    /\ UNCHANGED <<configVars, threadVars, listenVars, ttsVars, statsVars,
                   chatVars, now, last_kobold_use_time, last_forge_use_time,
                   koboldVars, forgeVars, taskVars, cmd, bot_closed>>

\* generate_text returned; response is None or <<text>>, bot.py:524-531.
\* A variant of the test that takes every str for a reply.
IsStr(response) == response # None

\* `if response_text:`, bot.py:526: a str that is not empty
TruthyText(response) == response # None /\ response[1] # ""

GenEnd(s, response) ==
    /\ req[s].pc = "generating"
    /\ response # None => kobold_online
    /\ LET r == req[s]
       IN /\ chat_histories' =
                IF TruthyText(response) /\ r.attached
                THEN [chat_histories EXCEPT ![r.channel] =
                         <<AppendExchange(@[1], r.author, r.user_message,
                                          response[1])>>]
                ELSE chat_histories
          /\ req' = [req EXCEPT ![s] =
                        [pc |-> "replying", channel |-> r.channel,
                         attached |-> r.attached,
                         response_text |-> IF TruthyText(response)
                                           THEN response ELSE None]]
    /\ event' = Quiet
    /\ UNCHANGED <<configVars, threadVars, listenVars, ttsVars, statsVars,
                   now, last_kobold_use_time, last_forge_use_time, koboldVars,
                   forgeVars, taskVars, cmd, bot_closed>>

\* on_message sends the reply or the apology and returns, bot.py:719-733.
ReplyDone(s) ==
    /\ req[s].pc = "replying"
    /\ req' = [req EXCEPT ![s] = IdleReq]
    /\ event' = Quiet
    /\ UNCHANGED <<configVars, threadVars, listenVars, ttsVars, statsVars,
                   chat_histories, now, last_kobold_use_time,
                   last_forge_use_time, koboldVars, forgeVars, taskVars, cmd,
                   bot_closed>>

\* !paint clearchat, bot.py:783-790
clearchat(ch) ==
    /\ ~bot_closed
    /\ chat_histories' = IF chat_histories[ch] # None
                         THEN DeleteHistory(chat_histories, ch)
                         ELSE chat_histories
    /\ req' = Detach(req, chat_histories')
    /\ event' = Quiet
    /\ UNCHANGED <<configVars, threadVars, listenVars, ttsVars, statsVars,
                   now, last_kobold_use_time, last_forge_use_time, koboldVars,
                   forgeVars, taskVars, cmd, bot_closed>>

----------------------------------------------------------------------------
(* Process Lifecycle Manager: process_manager.py, kobold_process_manager.py.*)
(* A process handle is "None", "alive" (poll() is None) or "exited".       *)

\* is_forge_running / is_koboldcpp_running
is_running(process) == process # "None" /\ process = "alive"

\* subprocess.Popen returns a process ("spawned") or raises.
PopenOutcomes == {"spawned", "popen_raises"}

\* A variant that never takes the process for running.
NeverAlreadyRunning(process) == FALSE

\* `if is_koboldcpp_running():` / `if is_forge_running():` at the head of start
AlreadyRunning(process) == is_running(process)

\* A variant that leaves the handle as it was when Popen raises.
HandleKeptAfterFailedPopen(process) == process

\* `except Exception: ... _kobold_process = None` / `_forge_process = None`
HandleAfterFailedPopen(process) == "None"

\* start_koboldcpp: the new handle, the returned tuple (success, model_name)
\* and what became of subprocess.Popen
start_koboldcpp(process, path, profile, popen) ==
    IF AlreadyRunning(process)
    THEN [process |-> process, result |-> <<TRUE, None>>, popen |-> "not_called"]
    ELSE IF path = "" \/ profile = ""
    THEN [process |-> process, result |-> <<FALSE, None>>, popen |-> "not_called"]
    ELSE IF popen = "popen_raises"
    THEN [process |-> HandleAfterFailedPopen(process),
          result |-> <<FALSE, None>>, popen |-> popen]
    ELSE [process |-> "alive", result |-> <<TRUE, <<"default">>>>,
          popen |-> popen]

\* start_forge: the new handle, the returned bool and what became of Popen
start_forge(process, path, popen) ==
    IF AlreadyRunning(process)
    THEN [process |-> process, result |-> TRUE, popen |-> "not_called"]
    ELSE IF path = ""
    THEN [process |-> process, result |-> FALSE, popen |-> "not_called"]
    ELSE IF popen = "popen_raises"
    THEN [process |-> HandleAfterFailedPopen(process), result |-> FALSE,
          popen |-> popen]
    ELSE [process |-> "alive", result |-> TRUE, popen |-> popen]

\* killpg/taskkill and wait(timeout=10) in stop: the process is gone in time,
\* wait raises TimeoutExpired, or the kill call raises.
KillOutcomes == {"terminated", "wait_timeout", "kill_raises"}

\* A variant that clears the handle only when the process was seen to exit.
HandleKeptUnlessTerminated(kill) == IF kill = "terminated" THEN "None" ELSE "alive"

\* `finally: _kobold_process = None` / `_forge_process = None`
HandleAfterKill(kill) == "None"

\* stop_koboldcpp: the new handle and the returned bool
stop_koboldcpp(process, kill) ==
    IF ~is_running(process) THEN [process |-> process, result |-> TRUE]
    ELSE [process |-> HandleAfterKill(kill), result |-> TRUE]

\* stop_forge: the new handle and the returned bool
stop_forge(process, kill) ==
    IF ~is_running(process) THEN [process |-> process, result |-> TRUE]
    ELSE [process |-> HandleAfterKill(kill), result |-> TRUE]

\* The API of a backend after a start: a newly spawned process has not
\* loaded its model yet.
OnlineAfterStart(online, before, after) ==
    IF ~is_running(before) /\ is_running(after) THEN FALSE ELSE online

\* The API of a backend after a stop: it goes down with the process.
OnlineAfterStop(online, before) == IF is_running(before) THEN FALSE ELSE online

\* stop_forge / stop_koboldcpp: the handle afterwards (`finally: ... = None`)
stop_process(process) == IF is_running(process) THEN "None" ELSE process

\* Python's truth value of a tuple: `if not success` with success a tuple
TupleTruthy(value) == Len(value) > 0

----------------------------------------------------------------------------
(* Idle-Timeout Supervisor: forge_idle_check and kobold_idle_check.        *)

NoTask == [pc |-> "unborn", status_channel |-> FALSE, cancelling |-> FALSE,
           outcome |-> ""]
\* bot.loop.create_task(...): the coroutine first awaits fetch_channel
FreshTask == [pc |-> "fetch", status_channel |-> FALSE, cancelling |-> FALSE,
              outcome |-> ""]
Finished(task, outcome) == [task EXCEPT !.pc = "done", !.outcome = outcome]

\* task.done()
done(task) == task.pc = "done"
\* A task that was created, has not finished and has not been cancelled.
Live(task) == task.pc \notin {"unborn", "done"} /\ ~task.cancelling

HasFreeTask(b) == \E i \in TaskIds : tasks[b][i].pc = "unborn"
FreeTask(b) == CHOOSE i \in TaskIds :
                   /\ tasks[b][i].pc = "unborn"
                   /\ \A j \in TaskIds : j < i => tasks[b][j].pc # "unborn"

\* Finished task objects nothing refers to are freed.
Reap(ts, kobold_ref, forge_ref) ==
    [b \in Backends |-> [i \in TaskIds |->
        IF /\ ts[b][i].pc = "done"
           /\ i # (IF b = "kobold" THEN kobold_ref ELSE forge_ref)
        THEN NoTask ELSE ts[b][i]]]

\* A variant without the test of the configured minutes.
TimeoutAlwaysEnabled(minutes) == TRUE

\* FORGE_IDLE_TIMEOUT_MINUTES > 0, bot.py:552 and bot.py:575
TimeoutEnabled(minutes) == minutes > 0

\* A variant that already fires when the idle time equals the threshold.
IdleExpiredAtThreshold(t_now, last_use, minutes) ==
    (t_now - last_use[1]) * 60 >= minutes * 60

\* idle_duration.total_seconds() > MINUTES * 60, bot.py:554 and bot.py:577
IdleExpired(t_now, last_use, minutes) == (t_now - last_use[1]) * 60 > minutes * 60

\* The three nested conditions of a poll, bot.py:550-554 and bot.py:574-577.
ShouldShutDown(process, last_use, minutes, t_now) ==
    /\ is_running(process)
    /\ last_use # None
    /\ TimeoutEnabled(minutes)
    /\ IdleExpired(t_now, last_use, minutes)

\* `while not bot.is_closed()` after an iteration
AfterIteration(task) ==
    IF bot_closed THEN Finished(task, "closed") ELSE [task EXCEPT !.pc = "sleep"]

\* fetch_channel returned a channel, raised NotFound/Forbidden (caught), or
\* raised another error (not caught: the task ends), bot.py:539-545, 564-569.
FetchOutcomes == {"found", "missing", "raises"}

IdleFetch(b, i, outcome) ==
    /\ tasks[b][i].pc = "fetch"
    /\ ~tasks[b][i].cancelling
    /\ LET t == tasks[b][i]
           t2 == IF outcome = "raises" THEN Finished(t, "fetch_error")
                 ELSE AfterIteration([t EXCEPT !.status_channel = (outcome = "found")])
       IN tasks' = [tasks EXCEPT ![b][i] = t2]
    /\ event' = Quiet
    /\ UNCHANGED <<configVars, threadVars, listenVars, ttsVars, statsVars,
                   chatVars, now, last_kobold_use_time, last_forge_use_time,
                   koboldVars, forgeVars, kobold_idle_task, forge_idle_task,
                   cmd, bot_closed>>

\* A variant that forgets only the first channel.
ClearFirstChannel(histories) == DeleteHistory(histories, "c1")

\* The histories after the text backend's shutdown: chat_histories.clear()
KoboldShutdownClear(histories) == ClearAll(histories)

\* One wake-up of kobold_idle_check from asyncio.sleep(60), bot.py:572-583,
\* up to the await on status_channel.send when there is a status channel.
KoboldIdlePoll(i) ==
    LET t == tasks["kobold"][i]
        shut == ShouldShutDown(kobold_process, last_kobold_use_time,
                               KOBOLDCPP_IDLE_TIMEOUT_MINUTES, now)
    IN /\ t.pc = "sleep"
       /\ ~t.cancelling
       /\ IF shut /\ t.status_channel
          THEN /\ tasks' = [tasks EXCEPT !["kobold"][i].pc = "notify"]
               /\ event' = Ev("kobold_idle_check", "notify")
               /\ UNCHANGED <<chatVars, koboldVars>>
          ELSE IF shut
          THEN /\ kobold_process' = stop_process(kobold_process)
               /\ kobold_online' = OnlineAfterStop(kobold_online, kobold_process)
               /\ chat_histories' = KoboldShutdownClear(chat_histories)
               /\ req' = Detach(req, chat_histories')
               /\ tasks' = [tasks EXCEPT !["kobold"][i] = AfterIteration(t)]
               /\ event' = Ev("kobold_idle_check", "shutdown")
          ELSE /\ tasks' = [tasks EXCEPT !["kobold"][i] = AfterIteration(t)]
               /\ event' = Ev("kobold_idle_check", "nothing")
               /\ UNCHANGED <<chatVars, koboldVars>>
       /\ UNCHANGED <<configVars, threadVars, listenVars, ttsVars, statsVars,
                      now, last_kobold_use_time, last_forge_use_time,
                      forgeVars, kobold_idle_task, forge_idle_task, cmd,
                      bot_closed>>

\* status_channel.send returned (sent) or raised; then stop_koboldcpp() and
\* chat_histories.clear(), bot.py:580-583.
KoboldIdleNotified(i, sent) ==
    LET t == tasks["kobold"][i]
    IN /\ t.pc = "notify"
       /\ ~t.cancelling
       /\ IF sent
          THEN /\ kobold_process' = stop_process(kobold_process)
               /\ kobold_online' = OnlineAfterStop(kobold_online, kobold_process)
               /\ chat_histories' = KoboldShutdownClear(chat_histories)
               /\ req' = Detach(req, chat_histories')
               /\ tasks' = [tasks EXCEPT !["kobold"][i] = AfterIteration(t)]
               /\ event' = Ev("kobold_idle_check", "shutdown_after_notice")
          ELSE /\ tasks' = [tasks EXCEPT !["kobold"][i] = Finished(t, "send_error")]
               /\ event' = Ev("kobold_idle_check", "send_error")
               /\ UNCHANGED <<chatVars, koboldVars>>
       /\ UNCHANGED <<configVars, threadVars, listenVars, ttsVars, statsVars,
                      now, last_kobold_use_time, last_forge_use_time,
                      forgeVars, kobold_idle_task, forge_idle_task, cmd,
                      bot_closed>>

\* One wake-up of forge_idle_check, bot.py:548-558.
ForgeIdlePoll(i) ==
    LET t == tasks["forge"][i]
        shut == ShouldShutDown(forge_process, last_forge_use_time,
                               FORGE_IDLE_TIMEOUT_MINUTES, now)
    IN /\ t.pc = "sleep"
       /\ ~t.cancelling
       /\ IF shut /\ t.status_channel
          THEN /\ tasks' = [tasks EXCEPT !["forge"][i].pc = "notify"]
               /\ event' = Ev("forge_idle_check", "notify")
               /\ UNCHANGED forgeVars
          ELSE IF shut
          THEN /\ forge_process' = stop_process(forge_process)
               /\ forge_online' = OnlineAfterStop(forge_online, forge_process)
               /\ tasks' = [tasks EXCEPT !["forge"][i] = AfterIteration(t)]
               /\ event' = Ev("forge_idle_check", "shutdown")
          ELSE /\ tasks' = [tasks EXCEPT !["forge"][i] = AfterIteration(t)]
               /\ event' = Ev("forge_idle_check", "nothing")
               /\ UNCHANGED forgeVars
       /\ UNCHANGED <<configVars, threadVars, listenVars, ttsVars, statsVars,
                      chatVars, now, last_kobold_use_time,
                      last_forge_use_time, koboldVars, kobold_idle_task,
                      forge_idle_task, cmd, bot_closed>>

\* status_channel.send returned or raised; then stop_forge(), bot.py:557-558.
ForgeIdleNotified(i, sent) ==
    LET t == tasks["forge"][i]
    IN /\ t.pc = "notify"
       /\ ~t.cancelling
       /\ IF sent
          THEN /\ forge_process' = stop_process(forge_process)
               /\ forge_online' = OnlineAfterStop(forge_online, forge_process)
               /\ tasks' = [tasks EXCEPT !["forge"][i] = AfterIteration(t)]
               /\ event' = Ev("forge_idle_check", "shutdown_after_notice")
          ELSE /\ tasks' = [tasks EXCEPT !["forge"][i] = Finished(t, "send_error")]
               /\ event' = Ev("forge_idle_check", "send_error")
               /\ UNCHANGED forgeVars
       /\ UNCHANGED <<configVars, threadVars, listenVars, ttsVars, statsVars,
                      chatVars, now, last_kobold_use_time,
                      last_forge_use_time, koboldVars, kobold_idle_task,
                      forge_idle_task, cmd, bot_closed>>

\* A task whose cancel() was called gets CancelledError at its await.
IdleCancelled(b, i) ==
    /\ tasks[b][i].pc \notin {"unborn", "done"}
    /\ tasks[b][i].cancelling
    /\ tasks' = Reap([tasks EXCEPT ![b][i] = Finished(@, "cancelled")],
                     kobold_idle_task, forge_idle_task)
    /\ event' = Quiet
    /\ UNCHANGED <<configVars, threadVars, listenVars, ttsVars, statsVars,
                   chatVars, now, last_kobold_use_time, last_forge_use_time,
                   koboldVars, forgeVars, kobold_idle_task, forge_idle_task,
                   cmd, bot_closed>>

----------------------------------------------------------------------------
(* Single-worker TTS queue: tts_queue, process_tts_queue, add_to_tts_queue *)
(* (bot.py:78-152).  An asyncio.Queue is its deque of items and its count  *)
(* of unfinished tasks; an item is the pair (ctx, text).  A request is     *)
(* told from the others by its ctx, <<n>> for the n-th accepted one.       *)

EmptyQueue == [items |-> <<>>, unfinished |-> 0]

Job(n, text) == [ctx |-> <<n>>, text |-> <<text>>]

\* (None, None), bot.py:605
Sentinel == [ctx |-> None, text |-> None]

\* Texts handed to add_to_tts_queue
SpeechTexts == {"ok"}

\* tts_queue.qsize()
qsize(q) == Len(q.items)

\* A variant that lets one more request in.
QueueOverfull(q, capacity) == qsize(q) > capacity

\* tts_queue.qsize() >= MAX_CONCURRENT_TTS, bot.py:147
QueueFull(q, capacity) == qsize(q) >= capacity

\* Queue.put on a queue without maxsize: put_nowait, never suspends.
Put(q, item) == [items |-> Append(q.items, item),
                 unfinished |-> q.unfinished + 1]

\* A variant that hands out the newest item.
GetNewest(q) == [item |-> q.items[Len(q.items)],
                 queue |-> [q EXCEPT !.items = SubSeq(@, 1, Len(@) - 1)]]

\* Queue.get on a non-empty queue: the oldest item and the queue without it.
Get(q) == [item |-> Head(q.items), queue |-> [q EXCEPT !.items = Tail(@)]]

\* Queue.task_done
task_done(q) == [q EXCEPT !.unfinished = @ - 1]

\* The requests waiting in the queue (the sentinel is not one).
Waiting(q) == {i \in 1 .. Len(q.items) : q.items[i].ctx # None}

NoWorker == [pc |-> "unborn", ctx |-> None]
\* process_tts_queue up to its first await: tts_processing = True, then get()
FreshWorker == [pc |-> "get", ctx |-> None]

HasFreeWorker == \E w \in WorkerIds : tts_workers[w].pc = "unborn"
FreeWorker == CHOOSE w \in WorkerIds :
                  /\ tts_workers[w].pc = "unborn"
                  /\ \A v \in WorkerIds : v < w => tts_workers[v].pc # "unborn"

\* The workers that hold a request between get() and task_done().
Processing == {w \in WorkerIds : tts_workers[w].ctx # None}

\* add_to_tts_queue, bot.py:145-152.  The check and the put are one stretch
\* of code: put() on an unbounded queue does not suspend.
add_to_tts_queue(text) ==
    /\ tts_accepted < MaxJobs
    /\ IF QueueFull(tts_queue, MAX_CONCURRENT_TTS)
       THEN /\ event' = Ev("add_to_tts_queue", "False")
            /\ UNCHANGED <<tts_queue, tts_accepted>>
       ELSE /\ tts_queue' = Put(tts_queue, Job(tts_accepted + 1, text))
            /\ tts_accepted' = tts_accepted + 1
            /\ event' = Ev("add_to_tts_queue", "True")
    /\ UNCHANGED <<configVars, threadVars, listenVars, statsVars, chatVars,
                   now, last_kobold_use_time, last_forge_use_time, koboldVars,
                   forgeVars, taskVars, cmd, bot_closed, tts_processing,
                   tts_workers, tts_synth, tts_taken>>

\* The shutdown signals sent so far: task_done is never called for one, so
\* each stays in the queue's count of unfinished tasks.
SentinelsPut ==
    tts_queue.unfinished - Cardinality(Waiting(tts_queue))
                         - Cardinality(Processing)

\* on_shutdown, bot.py:602-607: the sentinel is put whatever the queue holds.
on_shutdown ==
    /\ SentinelsPut < MaxSentinels
    /\ tts_queue' = Put(tts_queue, Sentinel)
    /\ event' = Quiet
    /\ UNCHANGED <<configVars, threadVars, listenVars, statsVars, chatVars,
                   now, last_kobold_use_time, last_forge_use_time, koboldVars,
                   forgeVars, taskVars, cmd, bot_closed, tts_processing,
                   tts_workers, tts_synth, tts_accepted, tts_taken>>

\* A variant in which a failing request ends the worker.
EndOnJobError(worker) == NoWorker

\* `except Exception` of the inner try, bot.py:131-133: report MSG_TTS_ERROR
OnJobError(worker) == [worker EXCEPT !.pc = "report_error"]

\* A variant in which the timeout ends the worker.
EndOnTimeout(worker) == NoWorker

\* `except asyncio.TimeoutError`, bot.py:128-130: report the timeout
OnTimeout(worker) == [worker EXCEPT !.pc = "report_timeout"]

\* After `finally: tts_queue.task_done()` the loop awaits get() again; an
\* exception on its way out is caught by the outer try, bot.py:134-141.
AfterJob(worker) == FreshWorker

\* ctx, text = await tts_queue.get(); `if ctx is None: break` and
\* tts_processing = False, bot.py:90-93 and 143.
TtsGet(w) ==
    /\ tts_workers[w].pc = "get"
    /\ tts_queue.items # <<>>
    /\ LET got == Get(tts_queue)
       IN /\ tts_queue' = got.queue
          /\ IF got.item.ctx = None
             THEN /\ tts_workers' = [tts_workers EXCEPT ![w] = NoWorker]
                  /\ tts_processing' = FALSE
                  /\ event' = Ev("process_tts_queue", "shutdown")
                  /\ UNCHANGED tts_taken
             ELSE /\ tts_workers' = [tts_workers EXCEPT ![w] =
                         [pc |-> "announce", ctx |-> got.item.ctx]]
                  /\ tts_taken' = Append(tts_taken, got.item.ctx[1])
                  /\ event' = Ev("process_tts_queue", "took")
                  /\ UNCHANGED tts_processing
    /\ UNCHANGED <<configVars, threadVars, listenVars, statsVars, chatVars,
                   now, last_kobold_use_time, last_forge_use_time, koboldVars,
                   forgeVars, taskVars, cmd, bot_closed, tts_synth,
                   tts_accepted>>

\* send(MSG_TTS_GENERATING) returned or raised; after it wait_for runs
\* generate_speech, which starts the wrapper script as a subprocess
\* (bot.py:97-101, kokoro_api.py:76-81).
TtsAnnounced(w, sent) ==
    /\ tts_workers[w].pc = "announce"
    /\ IF sent
       THEN /\ tts_workers' = [tts_workers EXCEPT ![w].pc = "synth"]
            /\ tts_synth' = tts_synth \cup {tts_workers[w].ctx[1]}
       ELSE /\ tts_workers' = [tts_workers EXCEPT ![w] = OnJobError(@)]
            /\ UNCHANGED tts_synth
    /\ event' = Quiet
    /\ UNCHANGED <<configVars, threadVars, listenVars, statsVars, chatVars,
                   now, last_kobold_use_time, last_forge_use_time, koboldVars,
                   forgeVars, taskVars, cmd, bot_closed, tts_queue,
                   tts_processing, tts_accepted, tts_taken>>

\* How wait_for(generate_speech, TTS_TIMEOUT) ends: True with the file on
\* disk, True without it, False, or TimeoutError.
SynthOutcomes == {"audio", "no_file", "failed", "timeout"}

\* The subprocesses after wait_for cancelled generate_speech at TTS_TIMEOUT.
\* The CancelledError passes `except asyncio.TimeoutError` and `except
\* Exception` of kokoro_api.py:83-88 and 109-111, so process.kill() is not
\* called; the inner timeout of 120 s starts later than the outer one of
\* TTS_TIMEOUT = 120 s and cannot fire first.
SynthAfterTimeout(synth, n) == synth

TtsSynthesized(w, outcome) ==
    /\ tts_workers[w].pc = "synth"
    /\ LET n == tts_workers[w].ctx[1]
       IN IF outcome = "timeout"
          THEN /\ tts_workers' = [tts_workers EXCEPT ![w] = OnTimeout(@)]
               /\ tts_synth' = SynthAfterTimeout(tts_synth, n)
               /\ event' = Ev("process_tts_queue", "timeout")
          ELSE /\ tts_workers' = [tts_workers EXCEPT ![w] =
                      IF outcome = "audio" THEN [@ EXCEPT !.pc = "send_audio"]
                      ELSE OnJobError(@)]
               /\ tts_synth' = tts_synth \ {n}
               /\ event' = Quiet
    /\ UNCHANGED <<configVars, threadVars, listenVars, statsVars, chatVars,
                   now, last_kobold_use_time, last_forge_use_time, koboldVars,
                   forgeVars, taskVars, cmd, bot_closed, tts_queue,
                   tts_processing, tts_accepted, tts_taken>>

\* The send of the audio file returned or raised, bot.py:115-120.
TtsAudioSent(w, sent) ==
    /\ tts_workers[w].pc = "send_audio"
    /\ IF sent
       THEN /\ tts_workers' = [tts_workers EXCEPT ![w] = AfterJob(@)]
            /\ tts_queue' = task_done(tts_queue)
            /\ event' = Ev("process_tts_queue", "done")
       ELSE /\ tts_workers' = [tts_workers EXCEPT ![w] = OnJobError(@)]
            /\ event' = Quiet
            /\ UNCHANGED tts_queue
    /\ UNCHANGED <<configVars, threadVars, listenVars, statsVars, chatVars,
                   now, last_kobold_use_time, last_forge_use_time, koboldVars,
                   forgeVars, taskVars, cmd, bot_closed, tts_processing,
                   tts_synth, tts_accepted, tts_taken>>

\* The send of MSG_TTS_ERROR or of the timeout message returned or raised;
\* either way `finally` marks the request done, bot.py:122-136.
TtsReported(w, sent) ==
    /\ tts_workers[w].pc \in {"report_error", "report_timeout"}
    /\ tts_workers' = [tts_workers EXCEPT ![w] = AfterJob(@)]
    /\ tts_queue' = task_done(tts_queue)
    /\ event' = Ev("process_tts_queue",
                   IF ~sent THEN "report_failed"
                   ELSE IF tts_workers[w].pc = "report_timeout"
                   THEN "timeout_reported" ELSE "error_reported")
    /\ UNCHANGED <<configVars, threadVars, listenVars, statsVars, chatVars,
                   now, last_kobold_use_time, last_forge_use_time, koboldVars,
                   forgeVars, taskVars, cmd, bot_closed, tts_processing,
                   tts_synth, tts_accepted, tts_taken>>

\* A subprocess that no worker waits for any more exits on its own.
TtsSubprocessExit(n) ==
    /\ n \in tts_synth
    /\ \A w \in WorkerIds :
          ~(tts_workers[w].pc = "synth" /\ tts_workers[w].ctx = <<n>>)
    /\ tts_synth' = tts_synth \ {n}
    /\ event' = Quiet
    /\ UNCHANGED <<configVars, threadVars, listenVars, statsVars, chatVars,
                   now, last_kobold_use_time, last_forge_use_time, koboldVars,
                   forgeVars, taskVars, cmd, bot_closed, tts_queue,
                   tts_processing, tts_workers, tts_accepted, tts_taken>>

----------------------------------------------------------------------------
(* Events and commands of bot.py.  cmd holds, per command, where its one   *)
(* running invocation is suspended ("idle": none is running).              *)

\* A variant that creates the task on every on_ready.
ReadyAlwaysStartsTask(ref, task) == TRUE

\* on_ready, bot.py:591-593: `if not tts_processing`.  The new task runs its
\* first stretch (tts_processing = True, then await tts_queue.get()) before
\* any handler scheduled after it, so that stretch is part of on_ready's step.
ReadyStartsWorker(processing) == ~processing

\* on_ready, bot.py:585-600: `if forge_idle_task is None`, `if kobold_idle_task is None`
ReadyStartsTask(ref, task) == ref = 0

on_ready ==
    /\ ~bot_closed
    /\ LET mk_forge == ReadyStartsTask(forge_idle_task, tasks["forge"])
           mk_kobold == ReadyStartsTask(kobold_idle_task, tasks["kobold"])
           mk_worker == ReadyStartsWorker(tts_processing)
       IN /\ mk_forge => HasFreeTask("forge")
          /\ mk_kobold => HasFreeTask("kobold")
          /\ mk_worker => HasFreeWorker
          /\ tts_workers' = IF mk_worker
                            THEN [tts_workers EXCEPT ![FreeWorker] = FreshWorker]
                            ELSE tts_workers
          /\ tts_processing' = (tts_processing \/ mk_worker)
          /\ user_stats' = load_stats(stats_file)
          /\ forge_idle_task' = IF mk_forge THEN FreeTask("forge") ELSE forge_idle_task
          /\ kobold_idle_task' = IF mk_kobold THEN FreeTask("kobold")
                                 ELSE kobold_idle_task
          /\ tasks' = [b \in Backends |-> [i \in TaskIds |->
                IF \/ b = "forge" /\ mk_forge /\ i = FreeTask("forge")
                   \/ b = "kobold" /\ mk_kobold /\ i = FreeTask("kobold")
                THEN FreshTask ELSE tasks[b][i]]]
    /\ event' = Quiet
    /\ UNCHANGED <<configVars, threadVars, listenVars, stats_file, tts_queue,
                   tts_synth, tts_accepted, tts_taken, chatVars, now,
                   last_kobold_use_time, last_forge_use_time, koboldVars,
                   forgeVars, cmd, bot_closed>>

\* !gemma, bot.py:825-836: already running, or on to start the process
gemma ==
    /\ ~bot_closed
    /\ cmd.gemma = "idle"
    /\ cmd' = IF is_running(kobold_process) THEN cmd
              ELSE [cmd EXCEPT !.gemma = "starting"]
    /\ event' = Quiet
    /\ UNCHANGED <<configVars, threadVars, listenVars, ttsVars, statsVars,
                   chatVars, now, last_kobold_use_time, last_forge_use_time,
                   koboldVars, forgeVars, taskVars, bot_closed>>

\* success = await asyncio.to_thread(start_koboldcpp); `if not success: return`,
\* bot.py:838-844
GemmaStarted(outcome) ==
    /\ cmd.gemma = "starting"
    /\ LET started == start_koboldcpp(kobold_process,
                                      KOBOLDCPP_LAUNCH_SCRIPT_PATH,
                                      KOBOLDCPP_PROFILES, outcome)
           success == started.result
       IN /\ kobold_process' = started.process
          /\ kobold_online' = OnlineAfterStart(kobold_online, kobold_process,
                                               started.process)
          /\ cmd' = [cmd EXCEPT !.gemma = IF ~TupleTruthy(success) THEN "idle"
                                          ELSE "polling"]
          /\ event' = Quiet
    /\ UNCHANGED <<configVars, threadVars, listenVars, ttsVars, statsVars,
                   chatVars, now, last_kobold_use_time, last_forge_use_time,
                   forgeVars, taskVars, bot_closed>>

\* gemma, bot.py:856: `kobold_idle_task is None or kobold_idle_task.done()`
GemmaStartsTask(ref, task) == ref = 0 \/ done(task[ref])

\* The readiness poll saw the API online, bot.py:849-859.
GemmaOnline ==
    /\ cmd.gemma = "polling"
    /\ kobold_api_is_online
    /\ LET mk == GemmaStartsTask(kobold_idle_task, tasks["kobold"])
           ref == IF mk THEN FreeTask("kobold") ELSE kobold_idle_task
       IN /\ mk => HasFreeTask("kobold")
          /\ kobold_idle_task' = ref
          /\ tasks' = Reap(IF mk THEN [tasks EXCEPT !["kobold"][ref] = FreshTask]
                           ELSE tasks, ref, forge_idle_task)
    /\ last_kobold_use_time' = <<now>>
    /\ cmd' = [cmd EXCEPT !.gemma = "idle"]
    /\ event' = Quiet
    /\ UNCHANGED <<configVars, threadVars, listenVars, ttsVars, statsVars,
                   chatVars, now, last_forge_use_time, koboldVars, forgeVars,
                   forge_idle_task, bot_closed>>

\* 24 polls without an answer, bot.py:860-861.
GemmaTimeout ==
    /\ cmd.gemma = "polling"
    /\ ~kobold_api_is_online
    /\ cmd' = [cmd EXCEPT !.gemma = "idle"]
    /\ event' = Quiet
    /\ UNCHANGED <<configVars, threadVars, listenVars, ttsVars, statsVars,
                   chatVars, now, last_kobold_use_time, last_forge_use_time,
                   koboldVars, forgeVars, taskVars, bot_closed>>

\* !listen, bot.py:863-871
listen ==
    /\ ~bot_closed
    /\ last_kobold_use_time' = IF is_running(kobold_process) THEN <<now>>
                               ELSE last_kobold_use_time
    /\ event' = Quiet
    /\ UNCHANGED <<configVars, threadVars, listenVars, ttsVars, statsVars,
                   chatVars, now, last_forge_use_time, koboldVars, forgeVars,
                   taskVars, cmd, bot_closed>>

\* !stop, bot.py:873-878 and 885-886
stop ==
    /\ ~bot_closed
    /\ cmd.stop = "idle"
    /\ cmd' = IF is_running(kobold_process) THEN [cmd EXCEPT !.stop = "stopping"]
              ELSE cmd
    /\ event' = Quiet
    /\ UNCHANGED <<configVars, threadVars, listenVars, ttsVars, statsVars,
                   chatVars, now, last_kobold_use_time, last_forge_use_time,
                   koboldVars, forgeVars, taskVars, bot_closed>>

\* asyncio.to_thread(stop_koboldcpp) runs in its thread, bot.py:879.
StopThread ==
    /\ cmd.stop = "stopping"
    /\ kobold_process' = stop_process(kobold_process)
    /\ kobold_online' = OnlineAfterStop(kobold_online, kobold_process)
    /\ cmd' = [cmd EXCEPT !.stop = "stopped"]
    /\ event' = Quiet
    /\ UNCHANGED <<configVars, threadVars, listenVars, ttsVars, statsVars,
                   chatVars, now, last_kobold_use_time, last_forge_use_time,
                   forgeVars, taskVars, bot_closed>>

\* The histories after the manual stop: chat_histories.clear(), bot.py:882
StopClear(histories) == ClearAll(histories)

\* stop resumes after the thread: cancel the idle task, clear, bot.py:880-884.
StopFinish ==
    /\ cmd.stop = "stopped"
    /\ tasks' = IF kobold_idle_task # 0 /\ ~done(tasks["kobold"][kobold_idle_task])
                THEN [tasks EXCEPT !["kobold"][kobold_idle_task].cancelling = TRUE]
                ELSE tasks
    /\ chat_histories' = StopClear(chat_histories)
    /\ req' = Detach(req, chat_histories')
    /\ cmd' = [cmd EXCEPT !.stop = "idle"]
    /\ event' = Quiet
    /\ UNCHANGED <<configVars, threadVars, listenVars, ttsVars, statsVars,
                   now, last_kobold_use_time, last_forge_use_time, koboldVars,
                   forgeVars, kobold_idle_task, forge_idle_task, bot_closed>>

\* !paint start, bot.py:904-910
start_service ==
    /\ ~bot_closed
    /\ cmd.start_service = "idle"
    /\ cmd' = IF is_running(forge_process) THEN cmd
              ELSE [cmd EXCEPT !.start_service = "starting"]
    /\ event' = Quiet
    /\ UNCHANGED <<configVars, threadVars, listenVars, ttsVars, statsVars,
                   chatVars, now, last_kobold_use_time, last_forge_use_time,
                   koboldVars, forgeVars, taskVars, bot_closed>>

\* success = await asyncio.to_thread(start_forge), bot.py:912-918
StartServiceStarted(outcome) ==
    /\ cmd.start_service = "starting"
    /\ LET started == start_forge(forge_process, FORGE_LAUNCH_SCRIPT_PATH, outcome)
       IN /\ forge_process' = started.process
          /\ forge_online' = OnlineAfterStart(forge_online, forge_process,
                                              started.process)
          /\ cmd' = [cmd EXCEPT !.start_service =
                        IF ~started.result THEN "idle" ELSE "polling"]
          /\ event' = Quiet
    /\ UNCHANGED <<configVars, threadVars, listenVars, ttsVars, statsVars,
                   chatVars, now, last_kobold_use_time, last_forge_use_time,
                   koboldVars, taskVars, bot_closed>>

\* The readiness poll ends online or after 24 polls, bot.py:920-930.
StartServicePolled ==
    /\ cmd.start_service = "polling"
    /\ cmd' = [cmd EXCEPT !.start_service = "idle"]
    /\ event' = Quiet
    /\ UNCHANGED <<configVars, threadVars, listenVars, ttsVars, statsVars,
                   chatVars, now, last_kobold_use_time, last_forge_use_time,
                   koboldVars, forgeVars, taskVars, bot_closed>>

\* !paint stop, bot.py:933-939
stop_service ==
    /\ ~bot_closed
    /\ cmd.stop_service = "idle"
    /\ cmd' = IF is_running(forge_process)
              THEN [cmd EXCEPT !.stop_service = "stopping"] ELSE cmd
    /\ event' = Quiet
    /\ UNCHANGED <<configVars, threadVars, listenVars, ttsVars, statsVars,
                   chatVars, now, last_kobold_use_time, last_forge_use_time,
                   koboldVars, forgeVars, taskVars, bot_closed>>

\* asyncio.to_thread(stop_forge) and the confirmation, bot.py:940-941
StopServiceThread ==
    /\ cmd.stop_service = "stopping"
    /\ forge_process' = stop_process(forge_process)
    /\ forge_online' = OnlineAfterStop(forge_online, forge_process)
    /\ cmd' = [cmd EXCEPT !.stop_service = "idle"]
    /\ event' = Quiet
    /\ UNCHANGED <<configVars, threadVars, listenVars, ttsVars, statsVars,
                   chatVars, now, last_kobold_use_time, last_forge_use_time,
                   koboldVars, taskVars, bot_closed>>

\* ForgeAPIClient.txt2img, forge_api.py:45-88: the decoded image, or None
\* when the request failed, brought no image or the image did not decode.
txt2img(ok) == IF ok THEN [type |-> "Image", items |-> <<>>]
               ELSE [type |-> "NoneType", items |-> <<>>]

\* `image, info_json = value`, bot.py:407: a value that is no iterable of
\* two items raises (TypeError, or ValueError for another length).
Unpacks(value) == value.type = "tuple" /\ Len(value.items) = 2

\* _generate_image up to its await on forge_api.txt2img, bot.py:358-407
ImageBegin ==
    /\ ~bot_closed
    /\ cmd.image = "idle"
    /\ cmd' = IF forge_api_is_online THEN [cmd EXCEPT !.image = "generating"]
              ELSE cmd
    /\ event' = Quiet
    /\ UNCHANGED <<configVars, threadVars, listenVars, ttsVars, statsVars,
                   chatVars, now, last_kobold_use_time, last_forge_use_time,
                   koboldVars, forgeVars, taskVars, bot_closed>>

\* asyncio.to_thread(forge_api.txt2img, payload) returned and its value is
\* unpacked, bot.py:407.  When the unpacking raises the exception leaves
\* _generate_image: nothing of bot.py:409-456 runs.  Otherwise the stamp,
\* the counter and save_stats follow at once (bot.py:409-416), or
\* MSG_GEN_ERROR is sent (bot.py:454).
ImageEnd(ok) ==
    /\ cmd.image = "generating"
    /\ ok => forge_online
    /\ LET value == txt2img(ok)
       IN IF ~Unpacks(value)
          THEN /\ cmd' = [cmd EXCEPT !.image = "idle"]
               /\ UNCHANGED <<last_forge_use_time, statsVars>>
          ELSE IF Truthy(value.items[1]) /\ Truthy(value.items[2])
          THEN /\ last_forge_use_time' = <<now>>
               /\ user_stats' = Increment(user_stats, Requester)
               /\ stats_file' = save_stats(user_stats')
               /\ cmd' = [cmd EXCEPT !.image = "sending_image"]
          ELSE /\ cmd' = [cmd EXCEPT !.image = "sending_error"]
               /\ UNCHANGED <<last_forge_use_time, statsVars>>
    /\ event' = Ev("txt2img", IF ok THEN "image" ELSE "None")
    /\ UNCHANGED <<configVars, threadVars, listenVars, ttsVars, chatVars, now,
                   last_kobold_use_time, koboldVars, forgeVars, taskVars,
                   bot_closed>>

\* ctx.send returned, bot.py:450-456
ImageDone ==
    /\ cmd.image \in {"sending_image", "sending_error"}
    /\ cmd' = [cmd EXCEPT !.image = "idle"]
    /\ event' = Quiet
    /\ UNCHANGED <<configVars, threadVars, listenVars, ttsVars, statsVars,
                   chatVars, now, last_kobold_use_time, last_forge_use_time,
                   koboldVars, forgeVars, taskVars, bot_closed>>

----------------------------------------------------------------------------
(* The environment: the backends' APIs, crashes, the clock, bot.close().   *)

\* A started backend finishes loading and its API answers.
BackendUp(b) ==
    /\ IF b = "kobold"
       THEN /\ is_running(kobold_process) /\ ~kobold_online
            /\ kobold_online' = TRUE
            /\ UNCHANGED <<kobold_process, forgeVars>>
       ELSE /\ is_running(forge_process) /\ ~forge_online
            /\ forge_online' = TRUE
            /\ UNCHANGED <<forge_process, koboldVars>>
    /\ event' = Quiet
    /\ UNCHANGED <<configVars, threadVars, listenVars, ttsVars, statsVars,
                   chatVars, now, last_kobold_use_time, last_forge_use_time,
                   taskVars, cmd, bot_closed>>

\* A backend process exits on its own: poll() is no longer None.
BackendExit(b) ==
    /\ IF b = "kobold"
       THEN /\ is_running(kobold_process)
            /\ kobold_process' = "exited"
            /\ kobold_online' = FALSE
            /\ UNCHANGED forgeVars
       ELSE /\ is_running(forge_process)
            /\ forge_process' = "exited"
            /\ forge_online' = FALSE
            /\ UNCHANGED koboldVars
    /\ event' = Quiet
    /\ UNCHANGED <<configVars, threadVars, listenVars, ttsVars, statsVars,
                   chatVars, now, last_kobold_use_time, last_forge_use_time,
                   taskVars, cmd, bot_closed>>

Tick ==
    /\ now < MaxTime
    /\ now' = now + 1
    /\ event' = Quiet
    /\ UNCHANGED <<configVars, threadVars, listenVars, ttsVars, statsVars,
                   chatVars, last_kobold_use_time, last_forge_use_time,
                   koboldVars, forgeVars, taskVars, cmd, bot_closed>>

BotClose ==
    /\ ~bot_closed
    /\ bot_closed' = TRUE
    /\ event' = Quiet
    /\ UNCHANGED <<configVars, threadVars, listenVars, ttsVars, statsVars,
                   chatVars, now, last_kobold_use_time, last_forge_use_time,
                   koboldVars, forgeVars, taskVars, cmd>>

----------------------------------------------------------------------------
(* The bot after construction (bot.py:65-80) and its behaviours.           *)

Timeouts == {-1, 0, 1}

\* The installations explored: the bot manages the text backend only, or it
\* manages the image backend only while a KoboldCpp started by hand answers
\* at KOBOLDCPP_API_URL.
Deployments ==
    {[kobold_path |-> "koboldcpp", forge_path |-> "", kobold_minutes |-> m,
      forge_minutes |-> 1, external_kobold |-> FALSE] : m \in Timeouts}
    \cup
    {[kobold_path |-> "", forge_path |-> "webui.sh", kobold_minutes |-> 1,
      forge_minutes |-> m, external_kobold |-> TRUE] : m \in Timeouts}

InitState ==
    /\ req = [s \in Slots |-> IdleReq]
    /\ now = 0
    /\ last_kobold_use_time = None
    /\ last_forge_use_time = None
    /\ kobold_process = "None"
    /\ forge_process = "None"
    /\ forge_online = FALSE
    /\ kobold_idle_task = 0
    /\ forge_idle_task = 0
    /\ tasks = [b \in Backends |-> [i \in TaskIds |-> NoTask]]
    /\ cmd = [gemma |-> "idle", stop |-> "idle", start_service |-> "idle",
              stop_service |-> "idle", image |-> "idle"]
    /\ bot_closed = FALSE
    /\ event = Quiet
    /\ tts_queue = EmptyQueue
    /\ tts_processing = FALSE
    /\ tts_workers = [w \in WorkerIds |-> NoWorker]
    /\ tts_synth = {}
    /\ tts_accepted = 0
    /\ tts_taken = <<>>
    /\ user_stats = EmptyStats
    /\ listening_channels = EmptyDict
    /\ timers = [t \in TimerIds |-> NoTimer]
    /\ popens = [b \in Backends |-> [p \in Pids |-> "unborn"]]
    /\ threads = [b \in Backends |-> [t \in ThreadIds |-> NoThread]]

Init ==
    /\ stats_file = None
    /\ CONTEXT_TOKEN_LIMIT = MaxLimit
    /\ MAX_CONCURRENT_TTS = ConfiguredTtsCapacity
    /\ KOBOLDCPP_PROFILES = DefaultProfile
    /\ \E d \in Deployments :
          /\ KOBOLDCPP_LAUNCH_SCRIPT_PATH = d.kobold_path
          /\ FORGE_LAUNCH_SCRIPT_PATH = d.forge_path
          /\ KOBOLDCPP_IDLE_TIMEOUT_MINUTES = d.kobold_minutes
          /\ FORGE_IDLE_TIMEOUT_MINUTES = d.forge_minutes
          /\ kobold_online = d.external_kobold
    /\ chat_histories = [ch \in Channels |-> None]
    /\ InitState

\* The channel people chat in where the backends are what is explored.
BackendChannels == {"c1"}

\* The backend whose operations a deployment exercises.
Managed(b) == IF b = "kobold" THEN KOBOLDCPP_LAUNCH_SCRIPT_PATH # ""
              ELSE FORGE_LAUNCH_SCRIPT_PATH # ""

Next ==
    \/ \E ch \in BackendChannels : GenBegin(1, ch, "Al", "", "hi", MaxStored)
    \/ \E ch \in BackendChannels : ChatOffline(ch)
    \/ \E response \in {None, <<"ok">>} : GenEnd(1, response)
    \/ ReplyDone(1)
    \/ \E ch \in BackendChannels : clearchat(ch)
    \/ on_ready
    \/ \E b \in Backends, i \in TaskIds, o \in FetchOutcomes :
          Managed(b) /\ IdleFetch(b, i, o)
    \/ \E b \in Backends, i \in TaskIds : Managed(b) /\ IdleCancelled(b, i)
    \/ \E i \in TaskIds : Managed("kobold") /\ KoboldIdlePoll(i)
    \/ \E i \in TaskIds, sent \in BOOLEAN : Managed("kobold") /\ KoboldIdleNotified(i, sent)
    \/ Managed("kobold") /\ gemma
    \/ \E o \in PopenOutcomes : Managed("kobold") /\ GemmaStarted(o)
    \/ Managed("kobold") /\ GemmaOnline
    \/ Managed("kobold") /\ GemmaTimeout
    \/ Managed("kobold") /\ listen
    \/ Managed("kobold") /\ stop
    \/ Managed("kobold") /\ StopThread
    \/ Managed("kobold") /\ StopFinish
    \/ \E i \in TaskIds : Managed("forge") /\ ForgeIdlePoll(i)
    \/ Managed("forge") /\ start_service
    \/ \E o \in PopenOutcomes : Managed("forge") /\ StartServiceStarted(o)
    \/ Managed("forge") /\ StartServicePolled
    \/ Managed("forge") /\ stop_service
    \/ Managed("forge") /\ StopServiceThread
    \/ Managed("forge") /\ ImageBegin
    \/ \E ok \in BOOLEAN : Managed("forge") /\ ImageEnd(ok)
    \/ \E b \in Backends : Managed(b) /\ BackendUp(b)
    \/ \E b \in Backends : Managed(b) /\ BackendExit(b)
    \/ Tick
    \/ BotClose

Spec == Init /\ [][Next]_vars

----------------------------------------------------------------------------
(* Prompt assembly on its own: a channel that already holds some exchanges *)
(* (or has no key yet), any CONTEXT_TOKEN_LIMIT, one chat message.         *)

\* The exchanges generate_chat_response can have appended.
Exchanges ==
    {AppendExchange(<<>>, a, InjectTime(m), r) :
        a \in Authors, m \in UserMessages, r \in Replies}

RECURSIVE HistoriesOf(_)
HistoriesOf(n) ==
    IF n = 0 THEN {<<>>}
    ELSE LET shorter == HistoriesOf(n - 1)
         IN shorter \cup {h \o e : h \in shorter, e \in Exchanges}

InitPrompt ==
    /\ stats_file = None
    /\ CONTEXT_TOKEN_LIMIT \in 0 .. MaxLimit
    /\ MAX_CONCURRENT_TTS = ConfiguredTtsCapacity
    /\ KOBOLDCPP_PROFILES = DefaultProfile
    /\ KOBOLDCPP_LAUNCH_SCRIPT_PATH = ""
    /\ FORGE_LAUNCH_SCRIPT_PATH = ""
    /\ KOBOLDCPP_IDLE_TIMEOUT_MINUTES = 0
    /\ FORGE_IDLE_TIMEOUT_MINUTES = 0
    /\ kobold_online = TRUE
    /\ \E h \in HistoriesOf(MaxExchanges) :
          chat_histories \in {[ch \in Channels |-> None],
                              [ch \in Channels |-> IF ch = "c1" THEN <<h>> ELSE None]}
    /\ InitState

NextPrompt ==
    \E profile \in Profiles, m \in UserMessages :
        GenBegin(1, "c1", "Al", profile, m, 2 * MaxExchanges + 2)

SpecPrompt == InitPrompt /\ [][NextPrompt]_vars

\* The invocation of generate_chat_response suspended at its await.
Generating(s) == req[s].pc = "generating"

RECURSIVE SumTokens(_)
SumTokens(texts) ==
    IF texts = <<>> THEN 0
    ELSE get_token_count(Head(texts)) + SumTokens(Tail(texts))

\* The wire forms of the last k turns of a history, oldest first.
RenderedSuffix(history, k) ==
    [i \in 1 .. k |-> msg_text(history[Len(history) - k + i])]

\* C1: whenever persona + current turn are estimated at no more than
\* CONTEXT_TOKEN_LIMIT, that estimate plus the estimates of the history turns
\* kept in the prompt is no more than CONTEXT_TOKEN_LIMIT.
C1_BudgetRespected ==
    \A s \in Slots :
        (Generating(s) /\ InitialTokens(req[s].current_turn_text) <= CONTEXT_TOKEN_LIMIT)
        => InitialTokens(req[s].current_turn_text)
           + SumTokens(req[s].history_conversation) <= CONTEXT_TOKEN_LIMIT

\* A prompt within budget that keeps some turns and drops others.
C1_Witness ==
    \E s \in Slots :
        /\ Generating(s)
        /\ InitialTokens(req[s].current_turn_text) <= CONTEXT_TOKEN_LIMIT
        /\ Len(req[s].history_conversation) >= 1
        /\ Len(req[s].history_conversation) < Len(Stored(req[s].channel))
        /\ InitialTokens(req[s].current_turn_text)
           + SumTokens(req[s].history_conversation) = CONTEXT_TOKEN_LIMIT

\* C2: the turns in the prompt are the last k turns of the channel's history
\* in their stored order, between the persona and the current turn with the
\* model cue; and k is the whole history when all of it fits the budget.
C2_KeptIsSuffixInOrder ==
    \A s \in Slots :
        Generating(s) =>
            LET r == req[s]
                history == Stored(r.channel)
                k == Len(r.history_conversation)
            IN /\ k <= Len(history)
               /\ r.history_conversation = RenderedSuffix(history, k)
               /\ r.full_prompt =
                      persona_text \o Join(RenderedSuffix(history, k)) \o "\n"
                      \o r.current_turn_text \o "\n<start_of_turn>model\n"
               /\ (InitialTokens(r.current_turn_text)
                      + SumTokens(RenderedSuffix(history, Len(history)))
                       <= CONTEXT_TOKEN_LIMIT)
                  => k = Len(history)

\* A prompt holding all four turns of a two-exchange history.
C2_Witness ==
    \E s \in Slots :
        /\ Generating(s)
        /\ Len(Stored(req[s].channel)) >= 4
        /\ Len(req[s].history_conversation) = Len(Stored(req[s].channel))
        /\ Stored(req[s].channel)[1] # Stored(req[s].channel)[3]

\* C3: when persona + current turn alone are over CONTEXT_TOKEN_LIMIT, the
\* prompt is the persona, the whole current turn and the model cue, with no
\* history turn.
C3_OverflowKeepsCurrentTurn ==
    \A s \in Slots :
        (Generating(s) /\ InitialTokens(req[s].current_turn_text) > CONTEXT_TOKEN_LIMIT)
        => LET r == req[s]
           IN /\ r.history_conversation = <<>>
              /\ r.full_prompt =
                     persona_text \o "\n"
                     \o current_turn_text(r.author, r.user_profile_text,
                                          r.user_message)
                     \o "\n<start_of_turn>model\n"

\* Persona + current turn over the limit while the channel has a history
\* whose newest turn alone would be within the limit.
C3_Witness ==
    \E s \in Slots :
        /\ Generating(s)
        /\ InitialTokens(req[s].current_turn_text) > CONTEXT_TOKEN_LIMIT
        /\ Stored(req[s].channel) # <<>>
        /\ get_token_count(msg_text(
               Stored(req[s].channel)[Len(Stored(req[s].channel))]))
              <= CONTEXT_TOKEN_LIMIT

----------------------------------------------------------------------------
(* The history store on its own: two channels, two concurrent generations, *)
(* a KoboldCpp that answers, clearchat.                                    *)

ChatMessages == {"hi", "time?"}

InitChat ==
    /\ stats_file = None
    /\ CONTEXT_TOKEN_LIMIT = MaxLimit
    /\ MAX_CONCURRENT_TTS = ConfiguredTtsCapacity
    /\ KOBOLDCPP_PROFILES = DefaultProfile
    /\ KOBOLDCPP_LAUNCH_SCRIPT_PATH = ""
    /\ FORGE_LAUNCH_SCRIPT_PATH = ""
    /\ KOBOLDCPP_IDLE_TIMEOUT_MINUTES = 0
    /\ FORGE_IDLE_TIMEOUT_MINUTES = 0
    /\ kobold_online = TRUE
    /\ chat_histories = [ch \in Channels |-> None]
    /\ InitState

NextChat ==
    \/ \E s \in Slots, ch \in Channels, m \in ChatMessages :
          GenBegin(s, ch, "Al", "", m, MaxHistory)
    \/ \E s \in Slots, response \in {None, <<"ok">>} : GenEnd(s, response)
    \/ \E s \in Slots : ReplyDone(s)
    \/ \E ch \in Channels : clearchat(ch)

SpecChat == InitChat /\ [][NextChat]_vars

\* The step in which generate_chat_response of slot s resumes with a reply.
Replied(s) ==
    /\ req[s].pc = "generating"
    /\ req'[s].pc = "replying"
    /\ req'[s].response_text # None

\* C4: between clears a channel's history only grows at the tail, by the user
\* turn and then the reply of the exchange that just finished, every earlier
\* turn staying where and what it was; it becomes shorter only by a clear,
\* and after clearchat the channel's history reads as empty.
C4_HistoryGrowsAtTail ==
    [][\A ch \in Channels :
          /\ \/ Stored(ch)' = Stored(ch)
             \/ \E s \in Slots :
                   /\ Replied(s)
                   /\ req[s].channel = ch
                   /\ Stored(ch)' = Stored(ch)
                         \o <<Turn(req[s].author, req[s].user_message),
                              Turn(CHARACTER_NAME, req'[s].response_text[1])>>
             \/ clearchat(ch) /\ Stored(ch)' = <<>>
          /\ clearchat(ch) => Stored(ch)' = <<>>
      ]_vars

\* One channel holds two different exchanges in the order they finished while
\* the other has been cleared under a generation that is still running.
C4_Witness ==
    /\ Len(Stored("c1")) = 4
    /\ Stored("c1")[1] # Stored("c1")[3]
    /\ chat_histories["c2"] = None
    /\ \E s \in Slots : /\ req[s].pc = "generating"
                        /\ req[s].channel = "c2"
                        /\ ~req[s].attached

----------------------------------------------------------------------------
(* Properties of the last-use timestamps and of the idle supervisors,      *)
(* checked under Spec.                                                     *)

IdleCheckOf(b) == IF b = "kobold" THEN "kobold_idle_check" ELSE "forge_idle_check"
ProcessOf(b) == IF b = "kobold" THEN kobold_process ELSE forge_process
LastUseOf(b) == IF b = "kobold" THEN last_kobold_use_time ELSE last_forge_use_time
ThresholdOf(b) == IF b = "kobold" THEN KOBOLDCPP_IDLE_TIMEOUT_MINUTES
                  ELSE FORGE_IDLE_TIMEOUT_MINUTES

\* The step in which the readiness poll of !gemma got an answer from the API.
ReadinessConfirmed ==
    cmd.gemma = "polling" /\ cmd'.gemma = "idle" /\ kobold_online

\* The step in which txt2img returned an image.
ImageReturned == cmd.image = "generating" /\ cmd'.image = "sending_image"

\* C5: a step changes a backend's last-use timestamp only when it is the
\* return of a successful round-trip to that backend (a chat reply, an
\* answered readiness poll, a returned image).
C5_StampOnlyAfterRoundTrip ==
    [][/\ last_kobold_use_time' # last_kobold_use_time
          => (ReadinessConfirmed \/ \E s \in Slots : Replied(s))
       /\ last_forge_use_time' # last_forge_use_time => ImageReturned
      ]_vars

\* C6: with a threshold of 0 or less every step of the backend's idle check
\* is a poll that does nothing: no notice, no stop, no history cleared.
C6_DisabledNeverShutsDown ==
    [][\A b \in Backends :
          (ThresholdOf(b) <= 0 /\ event'.op = IdleCheckOf(b))
          => /\ event'.arg = "nothing"
             /\ UNCHANGED <<kobold_process, forge_process, kobold_online,
                            forge_online, chat_histories, req>>
      ]_vars

\* A poll that passed with the threshold disabled, the process running and
\* the last use two polls old.
C6_Witness ==
    \E b \in Backends :
        /\ ThresholdOf(b) <= 0
        /\ event = Ev(IdleCheckOf(b), "nothing")
        /\ is_running(ProcessOf(b))
        /\ LastUseOf(b) # None
        /\ now - LastUseOf(b)[1] >= 2

\* C7: an idle check decides to shut down only in a poll that finds the
\* process running, the timestamp set, the threshold positive and the time
\* since the timestamp strictly greater than it; a shutdown after the notice
\* completes such a poll; every other poll changes nothing but the task.
C7_ShutdownOnlyWhenExpired ==
    [][\A b \in Backends :
          event'.op = IdleCheckOf(b) =>
            /\ event'.arg \in {"notify", "shutdown"}
               => /\ ProcessOf(b) = "alive"
                  /\ LastUseOf(b) # None
                  /\ ThresholdOf(b) > 0
                  /\ (now - LastUseOf(b)[1]) * 60 > ThresholdOf(b) * 60
            /\ event'.arg \in {"shutdown_after_notice", "send_error"}
               => \E i \in TaskIds : tasks[b][i].pc = "notify"
            /\ event'.arg = "nothing"
               => UNCHANGED <<configVars, threadVars, listenVars, ttsVars, statsVars,
                              chatVars, now, last_kobold_use_time,
                              last_forge_use_time, koboldVars, forgeVars,
                              kobold_idle_task, forge_idle_task, cmd, bot_closed>>
            /\ (ProcessOf(b)' # ProcessOf(b) \/ chat_histories' # chat_histories)
               => event'.arg \in {"shutdown", "shutdown_after_notice"}
      ]_vars

\* A backend stopped by a poll two minutes after its last use, with a
\* threshold of one minute.
C7_Witness ==
    \E b \in Backends :
        /\ event = Ev(IdleCheckOf(b), "shutdown")
        /\ ThresholdOf(b) = 1
        /\ ProcessOf(b) = "None"
        /\ now - LastUseOf(b)[1] = 2

\* The backends with conversations in two channels: both thresholds at one
\* minute, no crash, no close.
ShutdownDeployments ==
    {d \in Deployments : d.kobold_minutes = 1 /\ d.forge_minutes = 1}

InitShutdown ==
    /\ stats_file = None
    /\ CONTEXT_TOKEN_LIMIT = MaxLimit
    /\ MAX_CONCURRENT_TTS = ConfiguredTtsCapacity
    /\ KOBOLDCPP_PROFILES = DefaultProfile
    /\ \E d \in ShutdownDeployments :
          /\ KOBOLDCPP_LAUNCH_SCRIPT_PATH = d.kobold_path
          /\ FORGE_LAUNCH_SCRIPT_PATH = d.forge_path
          /\ KOBOLDCPP_IDLE_TIMEOUT_MINUTES = d.kobold_minutes
          /\ FORGE_IDLE_TIMEOUT_MINUTES = d.forge_minutes
          /\ kobold_online = d.external_kobold
    /\ chat_histories = [ch \in Channels |-> None]
    /\ InitState

NextShutdown ==
    \/ \E ch \in Channels : GenBegin(1, ch, "Al", "", "hi", MaxStored)
    \/ GenEnd(1, <<"ok">>)
    \/ ReplyDone(1)
    \/ on_ready
    \/ \E b \in Backends, i \in TaskIds, o \in {"found", "missing"} :
          Managed(b) /\ IdleFetch(b, i, o)
    \/ \E b \in Backends, i \in TaskIds : Managed(b) /\ IdleCancelled(b, i)
    \/ \E i \in TaskIds : Managed("kobold") /\ KoboldIdlePoll(i)
    \/ \E i \in TaskIds : Managed("kobold") /\ KoboldIdleNotified(i, TRUE)
    \/ Managed("kobold") /\ gemma
    \/ Managed("kobold") /\ GemmaStarted("spawned")
    \/ Managed("kobold") /\ GemmaOnline
    \/ Managed("kobold") /\ stop
    \/ Managed("kobold") /\ StopThread
    \/ Managed("kobold") /\ StopFinish
    \/ \E i \in TaskIds : Managed("forge") /\ ForgeIdlePoll(i)
    \/ Managed("forge") /\ start_service
    \/ Managed("forge") /\ StartServiceStarted("spawned")
    \/ Managed("forge") /\ StartServicePolled
    \/ Managed("forge") /\ stop_service
    \/ Managed("forge") /\ StopServiceThread
    \/ Managed("forge") /\ ImageBegin
    \/ Managed("forge") /\ ImageEnd(TRUE)
    \/ \E b \in Backends : Managed(b) /\ BackendUp(b)
    \/ Tick

SpecShutdown == InitShutdown /\ [][NextShutdown]_vars

\* The step of an idle check of b that stops the backend.
IdleShutdown(b) ==
    /\ event'.op = IdleCheckOf(b)
    /\ event'.arg \in {"shutdown", "shutdown_after_notice"}

\* The steps in which !stop resumes after stop_koboldcpp and in which
\* stop_forge runs for !paint stop.
ManualStopDone == cmd.stop = "stopped" /\ cmd'.stop = "idle"
ManualStopServiceDone == cmd.stop_service = "stopping" /\ cmd'.stop_service = "idle"

\* C8: after a shutdown of the text backend, by its idle check or by !stop,
\* every channel's history reads as empty; a shutdown of the image backend,
\* by its idle check or by !paint stop, leaves chat_histories as it was.
C8_TextShutdownClearsHistories ==
    [][/\ (IdleShutdown("kobold") \/ ManualStopDone)
          => \A ch \in Channels : Stored(ch)' = <<>>
       /\ (IdleShutdown("forge") \/ ManualStopServiceDone)
          => UNCHANGED chat_histories
      ]_vars

\* The text backend's idle check has just shut the backend down and emptied
\* the store under a generation that was still running.
C8_Witness ==
    /\ IdleCheckOf("kobold") = event.op
    /\ event.arg \in {"shutdown", "shutdown_after_notice"}
    /\ kobold_process = "None"
    /\ \A ch \in Channels : chat_histories[ch] = None
    /\ req[1].pc = "generating" /\ ~req[1].attached

\* C9: no idle-check task ends because status_channel.send failed in one
\* iteration.
C9_LoopSurvivesIterationError ==
    \A b \in Backends, i \in TaskIds :
        ~(done(tasks[b][i]) /\ tasks[b][i].outcome = "send_error")

\* C10: at most one live idle-check task per backend.
C10_OneLiveTaskPerBackend ==
    \A b \in Backends : Cardinality({i \in TaskIds : Live(tasks[b][i])}) <= 1

\* The text backend's idle check is running as a second task object: the
\* first one ended (cancelled by !stop, or stopped by an error) and !gemma
\* created another.
C10_Witness ==
    /\ kobold_idle_task = 2
    /\ Live(tasks["kobold"][2])
    /\ tasks["kobold"][1] = NoTask
    /\ is_running(kobold_process)

----------------------------------------------------------------------------
(* The two process managers on their own: start and stop called in any     *)
(* order, from any configuration, while the processes come up and exit.    *)
(* A call leaves in `event` what it returned, as Python prints it, and     *)
(* what became of Popen or of the kill.                                    *)

ReprBool(value) == IF value THEN "True" ELSE "False"
ReprTuple(value) ==
    "(" \o ReprBool(value[1]) \o ", "
        \o (IF value[2] = None THEN "None" ELSE "'" \o value[2][1] \o "'")
        \o ")"
Returned(repr, how) == repr \o " " \o how

\* What a stop did: nothing, or one of the KillOutcomes.
StopReport(process, kill) == IF is_running(process) THEN kill ELSE "not_running"

StartKoboldCall(popen) ==
    /\ LET started == start_koboldcpp(kobold_process,
                                      KOBOLDCPP_LAUNCH_SCRIPT_PATH,
                                      KOBOLDCPP_PROFILES, popen)
       IN /\ kobold_process' = started.process
          /\ kobold_online' = OnlineAfterStart(kobold_online, kobold_process,
                                               started.process)
          /\ event' = Ev("start_koboldcpp",
                         Returned(ReprTuple(started.result), started.popen))
    /\ UNCHANGED <<configVars, threadVars, listenVars, ttsVars, statsVars,
                   chatVars, now, last_kobold_use_time, last_forge_use_time,
                   forgeVars, taskVars, cmd, bot_closed>>

StartForgeCall(popen) ==
    /\ LET started == start_forge(forge_process, FORGE_LAUNCH_SCRIPT_PATH, popen)
       IN /\ forge_process' = started.process
          /\ forge_online' = OnlineAfterStart(forge_online, forge_process,
                                              started.process)
          /\ event' = Ev("start_forge",
                         Returned(ReprBool(started.result), started.popen))
    /\ UNCHANGED <<configVars, threadVars, listenVars, ttsVars, statsVars,
                   chatVars, now, last_kobold_use_time, last_forge_use_time,
                   koboldVars, taskVars, cmd, bot_closed>>

StopKoboldCall(kill) ==
    /\ LET stopped == stop_koboldcpp(kobold_process, kill)
       IN /\ kobold_process' = stopped.process
          /\ kobold_online' = OnlineAfterStop(kobold_online, kobold_process)
          /\ event' = Ev("stop_koboldcpp",
                         Returned(ReprBool(stopped.result),
                                  StopReport(kobold_process, kill)))
    /\ UNCHANGED <<configVars, threadVars, listenVars, ttsVars, statsVars,
                   chatVars, now, last_kobold_use_time, last_forge_use_time,
                   forgeVars, taskVars, cmd, bot_closed>>

StopForgeCall(kill) ==
    /\ LET stopped == stop_forge(forge_process, kill)
       IN /\ forge_process' = stopped.process
          /\ forge_online' = OnlineAfterStop(forge_online, forge_process)
          /\ event' = Ev("stop_forge",
                         Returned(ReprBool(stopped.result),
                                  StopReport(forge_process, kill)))
    /\ UNCHANGED <<configVars, threadVars, listenVars, ttsVars, statsVars,
                   chatVars, now, last_kobold_use_time, last_forge_use_time,
                   koboldVars, taskVars, cmd, bot_closed>>

\* Every configuration of the launch targets: each path and the profile is
\* there or is not.
LaunchTargets ==
    [kobold_path : {"", "koboldcpp"}, forge_path : {"", "webui.sh"},
     profile : {"", DefaultProfile}]

InitProcess ==
    /\ stats_file = None
    /\ InitState
    /\ chat_histories = [ch \in Channels |-> None]
    /\ kobold_online = FALSE
    /\ CONTEXT_TOKEN_LIMIT = MaxLimit
    /\ MAX_CONCURRENT_TTS = ConfiguredTtsCapacity
    /\ KOBOLDCPP_IDLE_TIMEOUT_MINUTES = 0
    /\ FORGE_IDLE_TIMEOUT_MINUTES = 0
    /\ \E t \in LaunchTargets :
          /\ KOBOLDCPP_LAUNCH_SCRIPT_PATH = t.kobold_path
          /\ FORGE_LAUNCH_SCRIPT_PATH = t.forge_path
          /\ KOBOLDCPP_PROFILES = t.profile

NextProcess ==
    \/ \E popen \in PopenOutcomes : StartKoboldCall(popen)
    \/ \E popen \in PopenOutcomes : StartForgeCall(popen)
    \/ \E kill \in KillOutcomes : StopKoboldCall(kill)
    \/ \E kill \in KillOutcomes : StopForgeCall(kill)
    \/ \E b \in Backends : BackendUp(b)
    \/ \E b \in Backends : BackendExit(b)

SpecProcess == InitProcess /\ [][NextProcess]_vars

KoboldTargetMissing == KOBOLDCPP_LAUNCH_SCRIPT_PATH = "" \/ KOBOLDCPP_PROFILES = ""
ForgeTargetMissing == FORGE_LAUNCH_SCRIPT_PATH = ""

\* C11: a start called while the backend's process is running returns
\* success (True, resp. (True, None)), does not call Popen, and leaves the
\* process handle as it was.
C11_StartWhileRunningIsNoOp ==
    [][/\ (event'.op = "start_koboldcpp" /\ is_running(kobold_process)) =>
             /\ event'.arg = "(True, None) not_called"
             /\ kobold_process' = kobold_process
       /\ (event'.op = "start_forge" /\ is_running(forge_process)) =>
             /\ event'.arg = "True not_called"
             /\ forge_process' = forge_process]_vars

\* A start of KoboldCpp has just returned (True, None): it found the process
\* running, and the process still runs.
C11_Witness ==
    /\ event = Ev("start_koboldcpp", "(True, None) not_called")
    /\ is_running(kobold_process)
    /\ kobold_online

C13_StopAlwaysClearsHandle ==
    [][/\ event'.op = "stop_koboldcpp" =>
             /\ ~is_running(kobold_process')
             /\ IF is_running(kobold_process)
                THEN /\ kobold_process' = "None"
                     /\ event'.arg \in {Returned("True", kill) :
                                           kill \in KillOutcomes}
                ELSE /\ kobold_process' = kobold_process
                     /\ event'.arg = "True not_running"
       /\ event'.op = "stop_forge" =>
             /\ ~is_running(forge_process')
             /\ IF is_running(forge_process)
                THEN /\ forge_process' = "None"
                     /\ event'.arg \in {Returned("True", kill) :
                                           kill \in KillOutcomes}
                ELSE /\ forge_process' = forge_process
                     /\ event'.arg = "True not_running"]_vars

\* A stop of KoboldCpp whose wait timed out has just returned, with Forge
\* still running.
C13_Witness ==
    /\ event = Ev("stop_koboldcpp", "True wait_timeout")
    /\ kobold_process = "None"
    /\ is_running(forge_process)

----------------------------------------------------------------------------
(* !gemma under every configuration of KoboldCpp's launch target, with or  *)
(* without a KoboldCpp started by hand answering at KOBOLDCPP_API_URL.     *)

GemmaSetups ==
    {[kobold_path |-> "koboldcpp", profile |-> DefaultProfile,
      external_kobold |-> FALSE]}
    \cup
    {[kobold_path |-> t.kobold_path, profile |-> t.profile,
      external_kobold |-> e] :
        t \in {u \in LaunchTargets : u.kobold_path = "" \/ u.profile = ""},
        e \in BOOLEAN}

InitGemma ==
    /\ stats_file = None
    /\ InitState
    /\ chat_histories = [ch \in Channels |-> None]
    /\ CONTEXT_TOKEN_LIMIT = MaxLimit
    /\ MAX_CONCURRENT_TTS = ConfiguredTtsCapacity
    /\ KOBOLDCPP_IDLE_TIMEOUT_MINUTES = 1
    /\ FORGE_IDLE_TIMEOUT_MINUTES = 1
    /\ FORGE_LAUNCH_SCRIPT_PATH = ""
    /\ \E g \in GemmaSetups :
          /\ KOBOLDCPP_LAUNCH_SCRIPT_PATH = g.kobold_path
          /\ KOBOLDCPP_PROFILES = g.profile
          /\ kobold_online = g.external_kobold

NextGemma ==
    \/ gemma
    \/ \E o \in PopenOutcomes : GemmaStarted(o)
    \/ GemmaOnline
    \/ GemmaTimeout
    \/ listen
    \/ on_ready
    \/ \E b \in Backends, i \in TaskIds, o \in FetchOutcomes : IdleFetch(b, i, o)
    \/ \E i \in TaskIds : KoboldIdlePoll(i)
    \/ \E i \in TaskIds, sent \in BOOLEAN : KoboldIdleNotified(i, sent)
    \/ BackendUp("kobold")
    \/ BackendExit("kobold")
    \/ Tick

SpecGemma == InitGemma /\ [][NextGemma]_vars

\* C14: when start_koboldcpp fails, !gemma ends there: it does not go on to
\* the readiness poll, and with the launch target missing no !gemma stamps
\* last_kobold_use_time or creates the idle-check task.
C14_FailedStartEndsGemma ==
    [][/\ ( /\ cmd.gemma = "starting"
            /\ cmd'.gemma # "starting"
            /\ ~is_running(kobold_process')) => cmd'.gemma = "idle"
       /\ ( /\ cmd.gemma = "polling"
            /\ cmd'.gemma = "idle"
            /\ KoboldTargetMissing) =>
               UNCHANGED <<last_kobold_use_time, kobold_idle_task>>]_vars

\* The part of C14 about the timestamp and the idle-check task alone.
FailedGemmaStartsNoSupervisor ==
    [][( /\ cmd.gemma = "polling"
         /\ cmd'.gemma = "idle"
         /\ KoboldTargetMissing) =>
            UNCHANGED <<last_kobold_use_time, kobold_idle_task>>]_vars

----------------------------------------------------------------------------
(* The TTS queue on its own: speech requests, on_ready, the shutdown       *)
(* signal and the worker, for every MAX_CONCURRENT_TTS up to MaxCapacity.  *)

InitTts ==
    /\ stats_file = None
    /\ InitState
    /\ chat_histories = [ch \in Channels |-> None]
    /\ kobold_online = FALSE
    /\ CONTEXT_TOKEN_LIMIT = MaxLimit
    /\ KOBOLDCPP_IDLE_TIMEOUT_MINUTES = 0
    /\ FORGE_IDLE_TIMEOUT_MINUTES = 0
    /\ KOBOLDCPP_LAUNCH_SCRIPT_PATH = ""
    /\ FORGE_LAUNCH_SCRIPT_PATH = ""
    /\ KOBOLDCPP_PROFILES = ""
    /\ MAX_CONCURRENT_TTS \in 1 .. MaxCapacity

NextTts ==
    \/ on_ready
    \/ \E text \in SpeechTexts : add_to_tts_queue(text)
    \/ on_shutdown
    \/ \E w \in WorkerIds : TtsGet(w)
    \/ \E w \in WorkerIds, sent \in BOOLEAN : TtsAnnounced(w, sent)
    \/ \E w \in WorkerIds, outcome \in SynthOutcomes : TtsSynthesized(w, outcome)
    \/ \E w \in WorkerIds, sent \in BOOLEAN : TtsAudioSent(w, sent)
    \/ \E w \in WorkerIds, sent \in BOOLEAN : TtsReported(w, sent)
    \/ \E n \in 1 .. MaxJobs : TtsSubprocessExit(n)

SpecTts == InitTts /\ [][NextTts]_vars

\* The event loop runs every task that is ready, and every send and every
\* wait_for returns or raises: no step of the worker is put off for ever.
WorkerFairness ==
    /\ WF_vars(\E w \in WorkerIds : TtsGet(w))
    /\ WF_vars(\E w \in WorkerIds, sent \in BOOLEAN : TtsAnnounced(w, sent))
    /\ WF_vars(\E w \in WorkerIds, outcome \in SynthOutcomes :
                   TtsSynthesized(w, outcome))
    /\ WF_vars(\E w \in WorkerIds, sent \in BOOLEAN : TtsAudioSent(w, sent))
    /\ WF_vars(\E w \in WorkerIds, sent \in BOOLEAN : TtsReported(w, sent))

SpecTtsFair == SpecTts /\ WorkerFairness

LiveWorkers == {w \in WorkerIds : tts_workers[w].pc # "unborn"}

C16_OutstandingWithinCapacity ==
    Cardinality(Waiting(tts_queue)) + Cardinality(Processing)
        <= MAX_CONCURRENT_TTS

\* C17: the worker takes the accepted requests in the order of acceptance,
\* each once and none before an earlier one: what it has taken so far is
\* the first, the second, ... accepted request.
C17_TakenInAcceptanceOrder ==
    /\ Len(tts_taken) <= tts_accepted
    /\ \A i \in 1 .. Len(tts_taken) : tts_taken[i] = i

\* The worker has taken three requests, the third while two were waiting.
C17_Witness ==
    /\ Len(tts_taken) = 3
    /\ MAX_CONCURRENT_TTS = 2
    /\ event = Ev("process_tts_queue", "took")

\* C18: there is never more than one worker, and never more than one
\* synthesis subprocess running.
C18_OneSynthesisAtATime ==
    /\ Cardinality(LiveWorkers) <= 1
    /\ Cardinality(tts_synth) <= 1

\* The part of C18 about the worker alone.
OneWorker == Cardinality(LiveWorkers) <= 1

\* C19: a step out of the timeout report, whether the report was sent or
\* the send raised, marks the request done and puts the worker back at
\* get(); and when a request times out while the next one waits at the head
\* of the queue, the worker goes on to take that one.
C19_TimeoutDoesNotStall ==
    /\ [][\A w \in WorkerIds :
             ( /\ tts_workers[w].pc = "report_timeout"
               /\ tts_workers'[w] # tts_workers[w]) =>
                /\ tts_workers'[w] = FreshWorker
                /\ tts_queue'.unfinished = tts_queue.unfinished - 1
                /\ tts_queue'.items = tts_queue.items]_vars
    /\ \A n \in 1 .. MaxJobs :
          ( /\ event = Ev("process_tts_queue", "timeout")
            /\ Len(tts_taken) = n
            /\ tts_queue.items # <<>>
            /\ Head(tts_queue.items).ctx # None) ~> (Len(tts_taken) > n)

\* The second request has been taken after the first one timed out.
C19_Witness ==
    /\ event = Ev("process_tts_queue", "took")
    /\ tts_taken = <<1, 2>>
    /\ 1 \in tts_synth

\* C20: a worker ends only in the step in which get() hands it the sentinel,
\* and that step always ends it; then tts_processing is False, no request is
\* in processing and every request accepted before the sentinel has been
\* taken (the ones accepted after it stay in the queue).
C20_WorkerEndsOnlyOnSentinel ==
    [][\A w \in WorkerIds :
          /\ ( /\ tts_workers[w].pc # "unborn"
               /\ tts_workers'[w].pc = "unborn") =>
                /\ tts_workers[w].pc = "get"
                /\ tts_queue.items # <<>>
                /\ Head(tts_queue.items).ctx = None
                /\ tts_queue'.items = Tail(tts_queue.items)
                /\ ~tts_processing'
                /\ Processing' = {}
                /\ \A n \in 1 .. tts_accepted :
                      \/ \E i \in 1 .. Len(tts_taken) : tts_taken[i] = n
                      \/ \E i \in 1 .. Len(tts_queue'.items) :
                            tts_queue'.items[i].ctx = <<n>>
          /\ ( /\ tts_workers[w].pc = "get"
               /\ tts_workers'[w] # tts_workers[w]
               /\ Head(tts_queue.items).ctx = None) =>
                tts_workers'[w].pc = "unborn"]_vars

\* The worker has just ended on the sentinel, after a request that failed
\* and while a request accepted after the sentinel stays in the queue.
C20_Witness ==
    /\ event = Ev("process_tts_queue", "shutdown")
    /\ LiveWorkers = {}
    /\ ~tts_processing
    /\ Len(tts_taken) >= 1
    /\ Waiting(tts_queue) # {}

----------------------------------------------------------------------------
(* Image generation and the generation counters: the image backend is      *)
(* started and stopped by command, images are asked for, and STATS_FILE    *)
(* is absent or holds counters of earlier runs.                            *)

StatsFiles == {None, <<EmptyStats>>, <<[u \in {Requester} |-> 1]>>}

InitImage ==
    /\ InitState
    /\ chat_histories = [ch \in Channels |-> None]
    /\ kobold_online = FALSE
    /\ CONTEXT_TOKEN_LIMIT = MaxLimit
    /\ MAX_CONCURRENT_TTS = ConfiguredTtsCapacity
    /\ KOBOLDCPP_IDLE_TIMEOUT_MINUTES = 1
    /\ FORGE_IDLE_TIMEOUT_MINUTES = 1
    /\ KOBOLDCPP_LAUNCH_SCRIPT_PATH = ""
    /\ KOBOLDCPP_PROFILES = DefaultProfile
    /\ FORGE_LAUNCH_SCRIPT_PATH = "webui.sh"
    /\ stats_file \in StatsFiles

NextImage ==
    \/ on_ready
    \/ start_service
    \/ \E o \in PopenOutcomes : StartServiceStarted(o)
    \/ StartServicePolled
    \/ stop_service
    \/ StopServiceThread
    \/ ImageBegin
    \/ \E ok \in BOOLEAN : ImageEnd(ok)
    \/ BackendUp("forge")
    \/ BackendExit("forge")
    \/ Tick

SpecImage == InitImage /\ [][NextImage]_vars

\* C21: the step in which txt2img comes back with an image adds exactly one
\* to the requester's counter and leaves STATS_FILE holding the counters as
\* they are after that; the step in which it comes back without one changes
\* neither the counters nor the file.
C21_SuccessCountsOnce ==
    [][( /\ cmd.image = "generating"
         /\ cmd'.image # "generating"
         /\ event'.op = "txt2img") =>
            IF event'.arg = "image"
            THEN /\ user_stats' = Increment(user_stats, Requester)
                 /\ stats_file' = <<user_stats'>>
            ELSE UNCHANGED <<user_stats, stats_file>>]_vars

\* The part of C21 about a generation that failed.
FailedGenerationCountsNothing ==
    [][( /\ cmd.image = "generating"
         /\ cmd'.image # "generating"
         /\ event'.arg # "image") =>
            UNCHANGED <<user_stats, stats_file>>]_vars

----------------------------------------------------------------------------
(* on_message (bot.py:609-733): what a message in an allowed channel       *)
(* triggers.  The tests on message.content are tabulated for the contents  *)
(* explored.                                                               *)

Contents == {"!gemma hello", "hello Gemma", "hello"}

\* message.content.startswith(bot.command_prefix), bot.py:616, with
\* command_prefix="!" (bot.py:65); also message.content.startswith("!")
StartsWithPrefix(content) == content \in {"!gemma hello"}

\* message.content.lower().startswith("!gemma "), bot.py:633-634
is_direct_chat_command(content) == content \in {"!gemma hello"}

\* CHARACTER_NAME.lower() in message.content.lower(), bot.py:635
is_mention(content) == content \in {"!gemma hello", "hello Gemma"}

\* bot.py:645-649
user_message_of(content) ==
    IF is_direct_chat_command(content) THEN "hello" ELSE content

\* bot.process_commands: "!gemma hello" invokes the command named gemma;
\* the words after the name are left over and ignored.
process_commands(content) == content = "!gemma hello" /\ gemma

\* A message that triggers nothing.
Ignored ==
    /\ event' = Quiet
    /\ UNCHANGED <<configVars, threadVars, listenVars, ttsVars, statsVars,
                   chatVars, now, last_kobold_use_time, last_forge_use_time,
                   koboldVars, forgeVars, taskVars, cmd, bot_closed>>

on_message(s, ch, author, profile, content, cap) ==
    IF StartsWithPrefix(content)
    THEN process_commands(content)
    ELSE IF /\ ~StartsWithPrefix(content) \/ is_direct_chat_command(content)
            /\ is_direct_chat_command(content) \/ is_mention(content)
    THEN \/ ChatOffline(ch)
         \/ GenBegin(s, ch, author, profile, user_message_of(content), cap)
    ELSE Ignored

\* A bot whose KoboldCpp it manages itself, or one started by hand.
MessageSetups ==
    {[kobold_path |-> "koboldcpp", external_kobold |-> FALSE],
     [kobold_path |-> "", external_kobold |-> TRUE]}

InitMessages ==
    /\ InitState
    /\ stats_file = None
    /\ chat_histories = [ch \in Channels |-> None]
    /\ CONTEXT_TOKEN_LIMIT = MaxLimit
    /\ MAX_CONCURRENT_TTS = ConfiguredTtsCapacity
    /\ KOBOLDCPP_IDLE_TIMEOUT_MINUTES = 0
    /\ FORGE_IDLE_TIMEOUT_MINUTES = 0
    /\ FORGE_LAUNCH_SCRIPT_PATH = ""
    /\ KOBOLDCPP_PROFILES = DefaultProfile
    /\ \E m \in MessageSetups :
          /\ KOBOLDCPP_LAUNCH_SCRIPT_PATH = m.kobold_path
          /\ kobold_online = m.external_kobold

NextMessages ==
    \/ \E s \in Slots, ch \in Channels, content \in Contents :
          on_message(s, ch, "Al", "", content, MaxStored)
    \/ \E o \in PopenOutcomes : GemmaStarted(o)
    \/ GemmaOnline
    \/ GemmaTimeout
    \/ BackendUp("kobold")
    \/ BackendExit("kobold")
    \/ \E s \in Slots, response \in {None, <<"ok">>} : GenEnd(s, response)
    \/ \E s \in Slots : ReplyDone(s)

SpecMessages == InitMessages /\ [][NextMessages]_vars

\* A listening_timer task that has not finished.
Counting(timer) == timer.pc \notin {"unborn", "done"}

\* The listen session of a channel is Active (or WarningIssued).
ListenActive(ch) ==
    /\ ch \in DOMAIN listening_channels
    /\ Counting(timers[listening_channels[ch]])

\* C22: a direct chat invocation ("!gemma <text>") in a channel without a
\* listen session leaves the channel with an entry in listening_channels
\* whose listening_timer task is running.
C22_DirectInvocationStartsSession ==
    [][\A s \in Slots, ch \in Channels, content \in Contents :
          ( /\ is_direct_chat_command(content)
            /\ ~ListenActive(ch)
            /\ on_message(s, ch, "Al", "", content, MaxStored)) =>
             ListenActive(ch)']_vars

\* C26: a bare mention, a message that names the character without being a
\* direct invocation, is answered only while the channel's listen session
\* is active.
C26_BareMentionOnlyWhileListening ==
    [][\A s \in Slots, ch \in Channels, content \in Contents :
          ( /\ is_mention(content)
            /\ ~is_direct_chat_command(content)
            /\ on_message(s, ch, "Al", "", content, MaxStored)
            /\ req[s].pc = "idle"
            /\ req'[s].pc = "generating") =>
             ListenActive(ch)]_vars

----------------------------------------------------------------------------
(* Listen mode: listening_timer (bot.py:218-239), one action per stretch   *)
(* between two awaits, and the operations that start, reset and stop a     *)
(* session, which are written after section 4.4 of the specification.      *)

\* asyncio.create_task gives the next task object.
HasFreeTimer == \E t \in TimerIds : timers[t].pc = "unborn"

FreeTimer ==
    CHOOSE t \in TimerIds :
       /\ timers[t].pc = "unborn"
       /\ \A u \in TimerIds : u < t => timers[u].pc # "unborn"

\* asyncio.create_task(listening_timer(channel)): the task waits in
\* asyncio.sleep(29 * 60), bot.py:221.
NewTimer(ch) == [NoTimer EXCEPT !.pc = "sleep_warn", !.channel = ch]

\* Task.cancel(): a finished task is left alone.
cancel(ts, t) ==
    IF Counting(ts[t]) THEN [ts EXCEPT ![t].cancelling = TRUE] ELSE ts

\* The task is taken out of its await by CancelledError, whichever await it
\* is in.
NeverInterrupted(timer) == FALSE

Interrupted(timer) == timer.cancelling

\* del dict[key]
Without(dict, key) == [k \in DOMAIN dict \ {key} |-> dict[k]]

\* if channel.id in listening_channels: del listening_channels[channel.id]
Discard(dict, key) == IF key \in DOMAIN dict THEN Without(dict, key) ELSE dict

\* A direct chat invocation: an Inactive channel gets a timer; an Active
\* one has its timer cancelled and replaced.
start_listening(ch) ==
    /\ ~bot_closed
    /\ HasFreeTimer
    /\ LET prior == IF ch \in DOMAIN listening_channels
                    THEN cancel(timers, listening_channels[ch]) ELSE timers
           task == FreeTimer
       IN /\ timers' = [prior EXCEPT ![task] = NewTimer(ch)]
          /\ listening_channels' =
                [k \in DOMAIN listening_channels \cup {ch} |->
                    IF k = ch THEN task ELSE listening_channels[k]]
    /\ event' = Quiet
    /\ UNCHANGED <<configVars, threadVars, ttsVars, statsVars, chatVars, now,
                   last_kobold_use_time, last_forge_use_time, koboldVars,
                   forgeVars, taskVars, cmd, bot_closed>>

\* An explicit stop: the timer is cancelled, the session and the channel's
\* history are dropped.
stop_listening(ch) ==
    /\ ~bot_closed
    /\ ch \in DOMAIN listening_channels
    /\ timers' = cancel(timers, listening_channels[ch])
    /\ listening_channels' = Without(listening_channels, ch)
    /\ chat_histories' = [chat_histories EXCEPT ![ch] = None]
    /\ event' = Quiet
    /\ UNCHANGED <<configVars, threadVars, ttsVars, statsVars, req, now,
                   last_kobold_use_time, last_forge_use_time, koboldVars,
                   forgeVars, taskVars, cmd, bot_closed>>

\* asyncio.sleep(29 * 60) is over: channel.send(warning_message),
\* bot.py:221-226
TimerWarn(t) ==
    /\ timers[t].pc = "sleep_warn"
    /\ ~Interrupted(timers[t])
    /\ timers' = [timers EXCEPT ![t].pc = "send_warning"]
    /\ event' = Quiet
    /\ UNCHANGED <<configVars, threadVars, listening_channels, ttsVars,
                   statsVars, chatVars, now, last_kobold_use_time,
                   last_forge_use_time, koboldVars, forgeVars, taskVars, cmd,
                   bot_closed>>

\* The warning is delivered and the task sleeps 60 seconds (bot.py:227), or
\* the send raises and except Exception runs (bot.py:236-239).
TimerWarned(t, sent) ==
    /\ timers[t].pc = "send_warning"
    /\ ~Interrupted(timers[t])
    /\ IF sent
       THEN /\ timers' = [timers EXCEPT ![t].pc = "sleep_grace",
                                        ![t].warnings = @ + 1]
            /\ UNCHANGED listening_channels
       ELSE /\ timers' = [timers EXCEPT ![t].pc = "done",
                                        ![t].outcome = "error"]
            /\ listening_channels' =
                  Discard(listening_channels, timers[t].channel)
    /\ event' = Quiet
    /\ UNCHANGED <<configVars, threadVars, ttsVars, statsVars, chatVars, now,
                   last_kobold_use_time, last_forge_use_time, koboldVars,
                   forgeVars, taskVars, cmd, bot_closed>>

\* asyncio.sleep(60) is over, bot.py:229-232: with an entry for the
\* channel, the entry and the history go and the notice is being sent;
\* without one the coroutine returns.
TimerExpire(t) ==
    /\ timers[t].pc = "sleep_grace"
    /\ ~Interrupted(timers[t])
    /\ LET ch == timers[t].channel
       IN IF ch \in DOMAIN listening_channels
          THEN /\ listening_channels' = Without(listening_channels, ch)
               /\ chat_histories' = [chat_histories EXCEPT ![ch] = None]
               /\ timers' = [timers EXCEPT ![t].pc = "send_deactivated",
                                           ![t].clears = @ + 1]
          ELSE /\ timers' = [timers EXCEPT ![t].pc = "done",
                                           ![t].outcome = "returned"]
               /\ UNCHANGED <<listening_channels, chat_histories>>
    /\ event' = Quiet
    /\ UNCHANGED <<configVars, threadVars, ttsVars, statsVars, req, now,
                   last_kobold_use_time, last_forge_use_time, koboldVars,
                   forgeVars, taskVars, cmd, bot_closed>>

\* channel.send("**Listen mode has been deactivated...**"), bot.py:232, is
\* delivered, or raises and except Exception runs (bot.py:236-239).
TimerDeactivated(t, sent) ==
    /\ timers[t].pc = "send_deactivated"
    /\ ~Interrupted(timers[t])
    /\ IF sent
       THEN /\ timers' = [timers EXCEPT ![t].pc = "done",
                                        ![t].outcome = "expired",
                                        ![t].notices = @ + 1]
            /\ UNCHANGED listening_channels
       ELSE /\ timers' = [timers EXCEPT ![t].pc = "done",
                                        ![t].outcome = "error"]
            /\ listening_channels' =
                  Discard(listening_channels, timers[t].channel)
    /\ event' = Quiet
    /\ UNCHANGED <<configVars, threadVars, ttsVars, statsVars, chatVars, now,
                   last_kobold_use_time, last_forge_use_time, koboldVars,
                   forgeVars, taskVars, cmd, bot_closed>>

\* except asyncio.CancelledError, bot.py:233-234: a log line.
TimerCancelled(t) ==
    /\ Counting(timers[t])
    /\ Interrupted(timers[t])
    /\ timers' = [timers EXCEPT ![t].pc = "done", ![t].outcome = "cancelled"]
    /\ event' = Quiet
    /\ UNCHANGED <<configVars, threadVars, listening_channels, ttsVars,
                   statsVars, chatVars, now, last_kobold_use_time,
                   last_forge_use_time, koboldVars, forgeVars, taskVars, cmd,
                   bot_closed>>

InitListen ==
    /\ InitState
    /\ stats_file = None
    /\ CONTEXT_TOKEN_LIMIT = MaxLimit
    /\ MAX_CONCURRENT_TTS = ConfiguredTtsCapacity
    /\ KOBOLDCPP_PROFILES = DefaultProfile
    /\ KOBOLDCPP_LAUNCH_SCRIPT_PATH = ""
    /\ FORGE_LAUNCH_SCRIPT_PATH = ""
    /\ KOBOLDCPP_IDLE_TIMEOUT_MINUTES = 0
    /\ FORGE_IDLE_TIMEOUT_MINUTES = 0
    /\ kobold_online = TRUE
    /\ \E h \in HistoriesOf(1) :
          chat_histories \in {[ch \in Channels |-> None],
                              [ch \in Channels |-> <<h>>]}

NextListen ==
    \/ \E ch \in Channels : start_listening(ch)
    \/ \E ch \in Channels : stop_listening(ch)
    \/ \E t \in TimerIds : TimerWarn(t)
    \/ \E t \in TimerIds, sent \in BOOLEAN : TimerWarned(t, sent)
    \/ \E t \in TimerIds : TimerExpire(t)
    \/ \E t \in TimerIds, sent \in BOOLEAN : TimerDeactivated(t, sent)
    \/ \E t \in TimerIds : TimerCancelled(t)

SpecListen == InitListen /\ [][NextListen]_vars

\* A timer that ran to its end without being cancelled.
RanOut(timer) ==
    /\ timer.pc = "done"
    /\ timer.outcome # "cancelled"

\* C23: a listen-mode timer that runs to its end without being cancelled
\* has issued exactly one warning and exactly one deactivation notice and
\* has cleared its channel's history exactly once.
C23_ExpiryWarnsNotifiesClearsOnce ==
    \A t \in TimerIds :
       RanOut(timers[t]) =>
          /\ timers[t].warnings = 1
          /\ timers[t].notices = 1
          /\ timers[t].clears = 1

\* C24: once a listen-mode timer is cancelled it sends no further warning
\* or deactivation notice and does not clear the channel's history.
C24_CancelledTimerHasNoSideEffects ==
    [][\A t \in TimerIds :
          timers[t].cancelling =>
             /\ timers'[t].warnings = timers[t].warnings
             /\ timers'[t].notices = timers[t].notices
             /\ timers'[t].clears = timers[t].clears
             /\ timers'[t].pc \in {timers[t].pc, "done"}]_vars

\* A timer cancelled after its warning has ended without a notice.
C24_Witness ==
    \E t \in TimerIds :
       /\ timers[t].outcome = "cancelled"
       /\ timers[t].warnings = 1
       /\ timers[t].notices = 0
       /\ timers[t].clears = 0

\* A timer that counts down to its expiry and has not been cancelled.
ActiveTimer(timer) ==
    /\ timer.pc \in {"sleep_warn", "send_warning", "sleep_grace"}
    /\ ~timer.cancelling

ActiveTimersOf(ch) ==
    {t \in TimerIds : ActiveTimer(timers[t]) /\ timers[t].channel = ch}

\* C25: at any time a channel has at most one listen-mode timer that is
\* counting down and has not been cancelled.
C25_OneActiveTimerPerChannel ==
    \A ch \in Channels : Cardinality(ActiveTimersOf(ch)) <= 1

----------------------------------------------------------------------------
(* The hard cutoff of the history walk, under SpecPrompt.                  *)

\* The running total once the last k turns of history are counted.
RunningTotal(current, history, k) ==
    InitialTokens(current) + SumTokens(RenderedSuffix(history, k))

\* C27: the turns kept in the prompt are the last k turns of the history,
\* and when a turn is dropped the newest dropped turn is one that would have
\* taken the running total over CONTEXT_TOKEN_LIMIT; no turn older than it
\* is in the prompt, whether it would have fitted or not.
C27_HardCutoff ==
    \A s \in Slots :
        Generating(s) =>
            LET r == req[s]
                history == Stored(r.channel)
                k == Len(r.history_conversation)
            IN /\ k <= Len(history)
               /\ r.history_conversation = RenderedSuffix(history, k)
               /\ k < Len(history) =>
                     RunningTotal(r.current_turn_text, history, k)
                     + get_token_count(msg_text(history[Len(history) - k]))
                        > CONTEXT_TOKEN_LIMIT

\* A prompt that keeps the newest turns, stops at one that does not fit and
\* leaves out an older turn that would have fitted in its place.
C27_Witness ==
    \E s \in Slots :
        /\ Generating(s)
        /\ LET r == req[s]
               history == Stored(r.channel)
               k == Len(r.history_conversation)
           IN /\ k >= 1
              /\ k < Len(history)
              /\ \E j \in 1 .. Len(history) - k - 1 :
                    RunningTotal(r.current_turn_text, history, k)
                    + get_token_count(msg_text(history[j]))
                       <= CONTEXT_TOKEN_LIMIT

----------------------------------------------------------------------------
(* The budget consumed before the history walk, under SpecPrompt.          *)

\* tokens_used as it was before the loop added the kept turns.
UsedBeforeHistory(r) == r.tokens_used - SumTokens(r.history_conversation)

\* floor(length / 4) of each text taken on its own, added up.
SeparateEstimates(r) ==
    (Len(persona_text) \div 4) + (Len(r.current_turn_text) \div 4)

\* C28 as stated: the budget consumed before any history is considered is
\* floor(len(persona) / 4) + floor(len(current turn) / 4).
C28_SeparateEstimates ==
    \A s \in Slots :
        Generating(s) => UsedBeforeHistory(req[s]) = SeparateEstimates(req[s])

\* C28: the budget consumed before any history is considered is the
\* estimate of the persona and the current turn taken as one text,
\* floor((len(persona) + len(current turn)) / 4); that is the sum of the
\* two separate estimates, or one more.
C28_JointEstimate ==
    \A s \in Slots :
        Generating(s) =>
            /\ UsedBeforeHistory(req[s]) =
                  (Len(persona_text) + Len(req[s].current_turn_text)) \div 4
            /\ UsedBeforeHistory(req[s]) \in
                  {SeparateEstimates(req[s]), SeparateEstimates(req[s]) + 1}

\* A prompt whose persona and current turn have remainders that add up to
\* a further token.
C28_Witness ==
    \E s \in Slots :
        /\ Generating(s)
        /\ (Len(persona_text) % 4) + (Len(req[s].current_turn_text) % 4) >= 4
        /\ UsedBeforeHistory(req[s]) = SeparateEstimates(req[s]) + 1

----------------------------------------------------------------------------
(* The order of the exchanges of one channel, under SpecChat.              *)

\* The generation of slot s returns with a reply and appends to the list
\* stored for its channel.
Appends(s) == Replied(s) /\ req[s].attached

\* Slot s2 holds a message of the same channel that arrived before that of
\* slot s and is still waiting for its generation, its list still stored.
WaitsSinceBefore(s2, s) ==
    /\ s2 \in req[s].behind
    /\ req[s2].pc = "generating"
    /\ req[s2].channel = req[s].channel
    /\ req[s2].attached
    /\ s \notin req[s2].behind

\* C29 as stated: exchanges are appended in the arrival order of their
\* messages: when an exchange is appended, no message of the channel that
\* arrived earlier is still waiting to have its own appended.
C29_AppendedInArrivalOrder ==
    [][\A s \in Slots :
          Appends(s) => ~\E s2 \in Slots \ {s} : WaitsSinceBefore(s2, s)]_vars

\* C29: an exchange is appended at the tail of its channel's history in the
\* step in which its generation returns, whichever message arrived first;
\* the messages still waiting stay as they are and the step appends nothing
\* for them.
C29_AppendedInCompletionOrder ==
    [][\A s \in Slots :
          (req[s].pc = "generating" /\ req'[s].pc # "generating") =>
             /\ Stored(req[s].channel)' =
                   IF Appends(s)
                   THEN Stored(req[s].channel)
                        \o <<Turn(req[s].author, req[s].user_message),
                             Turn(CHARACTER_NAME, req'[s].response_text[1])>>
                   ELSE Stored(req[s].channel)
             /\ \A s2 \in Slots \ {s} : req'[s2] = req[s2]]_vars

\* The exchange of the later message is in the history and its reply is
\* being sent while the earlier message still waits for its generation.
C29_Witness ==
    \E s \in Slots, s2 \in Slots :
       /\ req[s].pc = "replying"
       /\ req[s].response_text # None
       /\ req[s2].pc = "generating"
       /\ req[s2].channel = req[s].channel
       /\ req[s2].attached
       /\ s \notin req[s2].behind
       /\ Len(Stored(req[s].channel)) >= 2

----------------------------------------------------------------------------
(* The status notice of an idle shutdown, under Spec.                      *)

\* The step in which an idle check of b, having found the idle time over,
\* is through with its notice: there was no status channel, the notice was
\* delivered, or status_channel.send raised.
NoticeOver(b) ==
    /\ event'.op = IdleCheckOf(b)
    /\ event'.arg \in {"shutdown", "shutdown_after_notice", "send_error"}

\* stop_koboldcpp() and chat_histories.clear(), or stop_forge(), have run.
StopCarriedOut(b) ==
    IF b = "kobold"
    THEN /\ kobold_process' = "None"
         /\ \A ch \in Channels : Stored(ch)' = <<>>
    ELSE forge_process' = "None"

\* C30: the notice of an idle shutdown is best-effort: once the idle check
\* is through with it, whether there was no status channel, the notice was
\* delivered or it could not be delivered, the backend is stopped (and for
\* the text backend the histories are cleared) in that same poll.
C30_StopFollowsNoticeRegardless ==
    [][\A b \in Backends : NoticeOver(b) => StopCarriedOut(b)]_vars

\* Without a status channel the poll stops the backend at once.
MissingChannelStillStops ==
    [][\A b \in Backends :
          (event'.op = IdleCheckOf(b) /\ event'.arg = "shutdown") =>
             StopCarriedOut(b)]_vars

----------------------------------------------------------------------------
(* KoboldAPIClient.generate_text (kobold_api.py:51-80) over the answers of *)
(* the backend, and the chat request that awaits it.                       *)

\* What the POST of generate_text meets: no connection, a timeout, an HTTP
\* error status, a body that is not JSON, JSON without "results", with an
\* empty list, with a first result without "text", with a first result
\* that is no object, and a first result with a text.
Answer(kind, text) == [kind |-> kind, text |-> text]

Answers ==
    {Answer(k, "") : k \in {"refused", "timeout", "http_error", "not_json",
                            "no_results", "empty_results", "no_text",
                            "not_an_object"}}
    \cup {Answer("text", t) : t \in {" ok ", "  "}}

\* str.strip() of the texts explored
strip(text) == IF text = " ok " THEN "ok" ELSE IF text = "  " THEN "" ELSE text

\* _send_request, kobold_api.py:23-49: the decoded JSON, None on an error
send_request_fails(answer) ==
    answer.kind \in {"refused", "timeout", "http_error", "not_json"}

\* kobold_api.py:67-80: the value returned, or the exception that leaves
\* (a first result that is no object raises TypeError, which is not caught).
generate_text(answer) ==
    IF send_request_fails(answer) \/ answer.kind \in {"no_results", "empty_results"}
    THEN [raises |-> FALSE, value |-> None]
    ELSE IF answer.kind = "no_text"
    THEN [raises |-> FALSE, value |-> None]
    ELSE IF answer.kind = "not_an_object"
    THEN [raises |-> TRUE, value |-> None]
    ELSE [raises |-> FALSE, value |-> <<strip(answer.text)>>]

\* The backend gives no text the bot could use.
NoText(answer) == answer.kind # "text" \/ strip(answer.text) = ""

\* asyncio.to_thread(kobold_api.generate_text, full_prompt) is over,
\* bot.py:524-531; an exception leaves generate_chat_response and
\* on_message.
GenAnswer(s, answer) ==
    /\ answer.kind \notin {"refused", "timeout"} => kobold_online
    /\ LET out == generate_text(answer)
       IN IF out.raises
          THEN /\ req[s].pc = "generating"
               /\ req' = [req EXCEPT ![s] = IdleReq]
               /\ event' = Quiet
               /\ UNCHANGED <<configVars, threadVars, listenVars, ttsVars,
                              statsVars, chat_histories, now,
                              last_kobold_use_time, last_forge_use_time,
                              koboldVars, forgeVars, taskVars, cmd,
                              bot_closed>>
          ELSE GenEnd(s, out.value)

NextAnswers ==
    \/ \E s \in Slots, ch \in Channels, m \in ChatMessages :
          GenBegin(s, ch, "Al", "", m, MaxHistory)
    \/ \E s \in Slots, answer \in Answers : GenAnswer(s, answer)
    \/ \E s \in Slots : ReplyDone(s)
    \/ \E ch \in Channels : clearchat(ch)

SpecAnswers == InitChat /\ [][NextAnswers]_vars

\* C31: when the text backend gives no text for a chat request, the step
\* in which the request learns so leaves the turns stored for every channel
\* as they were: neither the user's turn nor a model turn is appended.
C31_NoTextAppendsNothing ==
    [][\A s \in Slots, answer \in Answers :
          (NoText(answer) /\ GenAnswer(s, answer)) =>
             \A ch \in Channels : Stored(ch)' = Stored(ch)]_vars

\* A request has come back without text, the apology is being sent, and
\* the channel's history still holds the earlier exchange.
C31_Witness ==
    \E s \in Slots :
       /\ req[s].pc = "replying"
       /\ req[s].response_text = None
       /\ Len(Stored(req[s].channel)) = 2

----------------------------------------------------------------------------
(* The shape of a stored history, under SpecChat.                          *)

\* Turns 2k-1 and 2k of a history are a user's turn and the model's reply.
IsExchangeAt(history, k) ==
    /\ history[2 * k - 1].user_name # CHARACTER_NAME
    /\ history[2 * k].user_name = CHARACTER_NAME

\* C32: each channel's history has even length and is a sequence of
\* (user turn, model reply) pairs, whatever requests and clears interleave.
C32_HistoryIsExchanges ==
    \A ch \in Channels :
       /\ Len(Stored(ch)) % 2 = 0
       /\ \A k \in 1 .. (Len(Stored(ch)) \div 2) : IsExchangeAt(Stored(ch), k)

\* An exchange is stored for a channel while a request that began before
\* it was appended is still in flight for the same channel.
C32_Witness ==
    \E ch \in Channels, s \in Slots :
       /\ Len(Stored(ch)) = 2
       /\ req[s].pc = "generating"
       /\ req[s].channel = ch
       /\ req[s].attached
       /\ req[s].history_conversation = <<>>

----------------------------------------------------------------------------
(* Clears under a generation in flight, under Spec.                        *)

\* The step takes the key of channel ch out of chat_histories.
HistoryCleared(ch) == chat_histories[ch] # None /\ chat_histories'[ch] = None

\* C33: an exchange whose generation was in flight when its channel's
\* history was cleared (clearchat, !stop, idle shutdown of the text
\* backend) never appears in the stored history: the clear cuts the
\* request off from the stored list, the request stays cut off, and when
\* it completes no channel's stored history changes.
C33_ClearedExchangeNeverStored ==
    [][\A s \in Slots :
          req[s].pc = "generating" =>
             /\ HistoryCleared(req[s].channel) =>
                   req'[s].pc = "generating" /\ ~req'[s].attached
             /\ (~req[s].attached /\ req'[s].pc = "generating") =>
                   ~req'[s].attached
             /\ (~req[s].attached /\ req'[s].pc # "generating") =>
                   chat_histories' = chat_histories]_vars

\* A request that was in flight at a clear has got its reply, and the
\* channel's history does not hold the exchange.
C33_Witness ==
    \E s \in Slots :
       /\ req[s].pc = "replying"
       /\ req[s].response_text # None
       /\ ~req[s].attached
       /\ Stored(req[s].channel) = <<>>

----------------------------------------------------------------------------
(* The text backend and its idle supervisor on their own: !gemma and !stop *)
(* in any order, a KoboldCpp that may take long to answer, a one-minute    *)
(* threshold, nobody chatting.                                             *)

InitIdle ==
    /\ stats_file = None
    /\ CONTEXT_TOKEN_LIMIT = MaxLimit
    /\ MAX_CONCURRENT_TTS = ConfiguredTtsCapacity
    /\ KOBOLDCPP_PROFILES = DefaultProfile
    /\ KOBOLDCPP_LAUNCH_SCRIPT_PATH = "koboldcpp"
    /\ FORGE_LAUNCH_SCRIPT_PATH = ""
    /\ KOBOLDCPP_IDLE_TIMEOUT_MINUTES = 1
    /\ FORGE_IDLE_TIMEOUT_MINUTES = 0
    /\ kobold_online = FALSE
    /\ chat_histories = [ch \in Channels |-> None]
    /\ InitState

NextIdle ==
    \/ on_ready
    \/ \E i \in TaskIds, o \in {"found", "missing"} : IdleFetch("kobold", i, o)
    \/ \E i \in TaskIds : IdleCancelled("kobold", i)
    \/ \E i \in TaskIds : KoboldIdlePoll(i)
    \/ \E i \in TaskIds : KoboldIdleNotified(i, TRUE)
    \/ gemma
    \/ GemmaStarted("spawned")
    \/ GemmaOnline
    \/ GemmaTimeout
    \/ stop
    \/ StopThread
    \/ StopFinish
    \/ BackendUp("kobold")
    \/ Tick

SpecIdle == InitIdle /\ [][NextIdle]_vars

\* No !gemma and no !stop is under way.
NoCommandUnderWay == cmd.gemma = "idle" /\ cmd.stop = "idle"

\* An idle check of the text backend that polls, or one that on_ready will
\* still create.
SupervisorAtWork ==
    \/ kobold_idle_task = 0
    \/ Live(tasks["kobold"][kobold_idle_task])

\* C34: with the threshold enabled, a running text backend that stays
\* unused is one its idle supervisor will shut down: once the commands have
\* returned, the process running has a last-use time for the polls to
\* measure from and an idle check that polls.
C34_RunningBackendIsSupervised ==
    ( /\ TimeoutEnabled(KOBOLDCPP_IDLE_TIMEOUT_MINUTES)
      /\ is_running(kobold_process)
      /\ NoCommandUnderWay)
    => /\ last_kobold_use_time # None
       /\ SupervisorAtWork

\* The step in which an idle check of b decides to shut the backend down.
DecidesShutdown(b) ==
    /\ event'.op = IdleCheckOf(b)
    /\ event'.arg \in {"notify", "shutdown"}

\* !gemma has started the process and waits for the API to answer.
ComingOnline == cmd.gemma = "polling"

\* C35: a text backend that has just been started again is not shut down by
\* its idle supervisor on the strength of a last-use time from before: no
\* poll decides to shut down while the start still waits for the backend to
\* come online.
C35_NoShutdownWhileComingOnline ==
    [][DecidesShutdown("kobold") => ~ComingOnline]_vars

\* ---------------------------------------------------------------------
\* The process managers under threads.  !paint start, !gemma, !paint stop
\* and !stop run start_* and stop_* in worker threads (asyncio.to_thread),
\* the idle check of the text backend calls stop_koboldcpp on the thread of
\* the event loop.  In this specification forge_process and kobold_process
\* hold "None" or the name of the Popen object they refer to, and popens
\* tells which of the processes created so far are alive.

Handle(b) == IF b = "forge" THEN forge_process ELSE kobold_process

LivePopens(b) == {p \in Pids : popens[b][p] = "alive"}

\* is_forge_running / is_koboldcpp_running: a handle whose poll() is None
is_backend_running(b) ==
    Handle(b) # "None" /\ popens[b][Handle(b)] = "alive"

\* The launch script (and, for the text backend, the profile) is on disk.
CanLaunch(b) ==
    IF b = "forge" THEN FORGE_LAUNCH_SCRIPT_PATH # ""
    ELSE KOBOLDCPP_LAUNCH_SCRIPT_PATH # "" /\ KOBOLDCPP_PROFILES # ""

\* The next Popen object.
NewPid(b) ==
    PidNames[CHOOSE k \in DOMAIN PidNames :
                /\ popens[b][PidNames[k]] = "unborn"
                /\ \A j \in 1 .. (k - 1) : popens[b][PidNames[j]] # "unborn"]

SetHandle(b, handle) ==
    /\ forge_process' = IF b = "forge" THEN handle ELSE forge_process
    /\ kobold_process' = IF b = "kobold" THEN handle ELSE kobold_process

\* The event loop runs command handlers only while it is not inside the
\* idle check's synchronous stop_koboldcpp().
LoopFree(b) == \A c \in Backends : threads[c][LoopThread].pc = "idle"

\* start_service / gemma up to asyncio.to_thread(start_*): the command
\* answers "already running" and returns when the backend runs.
StartCommand(b, t) ==
    /\ t # LoopThread
    /\ LoopFree(b)
    /\ threads[b][t].pc = "idle"
    /\ ~is_backend_running(b)
    /\ threads' = [threads EXCEPT ![b][t] = [pc |-> "start_check"]]
    /\ UNCHANGED <<configVars, listenVars, ttsVars, statsVars, chatVars, now,
                   last_kobold_use_time, last_forge_use_time, koboldVars,
                   forgeVars, taskVars, cmd, bot_closed, event, popens>>

\* start_*, the check that the backend runs and the checks of the paths
StartCheck(b, t) ==
    /\ threads[b][t].pc = "start_check"
    /\ threads' = [threads EXCEPT ![b][t] =
                      IF is_backend_running(b) \/ ~CanLaunch(b)
                      THEN NoThread ELSE [pc |-> "start_popen"]]
    /\ UNCHANGED <<configVars, listenVars, ttsVars, statsVars, chatVars, now,
                   last_kobold_use_time, last_forge_use_time, koboldVars,
                   forgeVars, taskVars, cmd, bot_closed, event, popens>>

\* start_*, `_forge_process = subprocess.Popen(...)` and its except branch
StartPopen(b, t, popen) ==
    /\ threads[b][t].pc = "start_popen"
    /\ IF popen = "spawned"
       THEN /\ \E p \in Pids : popens[b][p] = "unborn"
            /\ popens' = [popens EXCEPT ![b][NewPid(b)] = "alive"]
            /\ SetHandle(b, NewPid(b))
       ELSE /\ SetHandle(b, HandleAfterFailedPopen(Handle(b)))
            /\ UNCHANGED popens
    /\ threads' = [threads EXCEPT ![b][t] = NoThread]
    /\ UNCHANGED <<configVars, listenVars, ttsVars, statsVars, chatVars, now,
                   last_kobold_use_time, last_forge_use_time, kobold_online,
                   forge_online, taskVars, cmd, bot_closed, event>>

\* stop_service / stop up to asyncio.to_thread(stop_*): the command answers
\* "not running" and returns when the backend does not run.
StopCommand(b, t) ==
    /\ t # LoopThread
    /\ LoopFree(b)
    /\ threads[b][t].pc = "idle"
    /\ is_backend_running(b)
    /\ threads' = [threads EXCEPT ![b][t] = [pc |-> "stop_check"]]
    /\ UNCHANGED <<configVars, listenVars, ttsVars, statsVars, chatVars, now,
                   last_kobold_use_time, last_forge_use_time, koboldVars,
                   forgeVars, taskVars, cmd, bot_closed, event, popens>>

\* kobold_idle_check, the poll that finds the backend idle for too long and
\* calls stop_koboldcpp()
IdleStop ==
    /\ LoopFree("kobold")
    /\ is_backend_running("kobold")
    /\ last_kobold_use_time # None
    /\ TimeoutEnabled(KOBOLDCPP_IDLE_TIMEOUT_MINUTES)
    /\ IdleExpired(now, last_kobold_use_time, KOBOLDCPP_IDLE_TIMEOUT_MINUTES)
    /\ threads' = [threads EXCEPT !["kobold"][LoopThread] =
                      [pc |-> "stop_check"]]
    /\ UNCHANGED <<configVars, listenVars, ttsVars, statsVars, chatVars, now,
                   last_kobold_use_time, last_forge_use_time, koboldVars,
                   forgeVars, taskVars, cmd, bot_closed, event, popens>>

\* stop_*, `if not is_*_running(): return True`
StopCheck(b, t) ==
    /\ threads[b][t].pc = "stop_check"
    /\ threads' = [threads EXCEPT ![b][t] =
                      IF is_backend_running(b)
                      THEN [pc |-> "stop_kill"] ELSE NoThread]
    /\ UNCHANGED <<configVars, listenVars, ttsVars, statsVars, chatVars, now,
                   last_kobold_use_time, last_forge_use_time, koboldVars,
                   forgeVars, taskVars, cmd, bot_closed, event, popens>>

\* stop_*, the try block: the group of `_forge_process.pid` is signalled
\* and wait(timeout=10) returns or raises; a handle that another thread has
\* set to None meanwhile raises AttributeError, which the except catches.
StopKill(b, t, kill) ==
    /\ threads[b][t].pc = "stop_kill"
    /\ popens' = IF Handle(b) # "None" /\ kill = "terminated"
                 THEN [popens EXCEPT ![b][Handle(b)] = "exited"]
                 ELSE popens
    /\ threads' = [threads EXCEPT ![b][t] = [pc |-> "stop_finally"]]
    /\ UNCHANGED <<configVars, listenVars, ttsVars, statsVars, chatVars, now,
                   last_kobold_use_time, last_forge_use_time, koboldVars,
                   forgeVars, taskVars, cmd, bot_closed, event>>

\* stop_*, `finally: _forge_process = None`; the idle check then clears the
\* histories.
StopFinally(b, t) ==
    /\ threads[b][t].pc = "stop_finally"
    /\ SetHandle(b, HandleAfterKill("terminated"))
    /\ threads' = [threads EXCEPT ![b][t] = NoThread]
    /\ chat_histories' = IF t = LoopThread
                         THEN KoboldShutdownClear(chat_histories)
                         ELSE chat_histories
    /\ UNCHANGED <<configVars, listenVars, ttsVars, statsVars, req, now,
                   last_kobold_use_time, last_forge_use_time, kobold_online,
                   forge_online, taskVars, cmd, bot_closed, event, popens>>

\* The process ends by itself.
ProcessExits(b, p) ==
    /\ popens[b][p] = "alive"
    /\ popens' = [popens EXCEPT ![b][p] = "exited"]
    /\ UNCHANGED <<configVars, listenVars, ttsVars, statsVars, chatVars, now,
                   last_kobold_use_time, last_forge_use_time, koboldVars,
                   forgeVars, taskVars, cmd, bot_closed, event, threads>>

\* Both launch scripts are on disk, the text backend was last used two
\* polls ago and its idle threshold is one minute.
InitThreads ==
    /\ stats_file = None
    /\ chat_histories = [ch \in Channels |-> None]
    /\ kobold_online = FALSE
    /\ CONTEXT_TOKEN_LIMIT = MaxLimit
    /\ MAX_CONCURRENT_TTS = ConfiguredTtsCapacity
    /\ KOBOLDCPP_IDLE_TIMEOUT_MINUTES = 1
    /\ FORGE_IDLE_TIMEOUT_MINUTES = 0
    /\ KOBOLDCPP_LAUNCH_SCRIPT_PATH = "koboldcpp"
    /\ FORGE_LAUNCH_SCRIPT_PATH = "webui.sh"
    /\ KOBOLDCPP_PROFILES = DefaultProfile
    /\ req = [s \in Slots |-> IdleReq]
    /\ now = MaxTime
    /\ last_kobold_use_time = <<0>>
    /\ last_forge_use_time = None
    /\ kobold_process = "None"
    /\ forge_process = "None"
    /\ forge_online = FALSE
    /\ kobold_idle_task = 0
    /\ forge_idle_task = 0
    /\ tasks = [b \in Backends |-> [i \in TaskIds |-> NoTask]]
    /\ cmd = [gemma |-> "idle", stop |-> "idle", start_service |-> "idle",
              stop_service |-> "idle", image |-> "idle"]
    /\ bot_closed = FALSE
    /\ event = Quiet
    /\ tts_queue = EmptyQueue
    /\ tts_processing = FALSE
    /\ tts_workers = [w \in WorkerIds |-> NoWorker]
    /\ tts_synth = {}
    /\ tts_accepted = 0
    /\ tts_taken = <<>>
    /\ user_stats = EmptyStats
    /\ listening_channels = EmptyDict
    /\ timers = [t \in TimerIds |-> NoTimer]
    /\ popens = [b \in Backends |-> [p \in Pids |-> "unborn"]]
    /\ threads = [b \in Backends |-> [t \in ThreadIds |-> NoThread]]

NextThreads ==
    \/ \E b \in Backends, t \in ThreadIds : StartCommand(b, t)
    \/ \E b \in Backends, t \in ThreadIds : StartCheck(b, t)
    \/ \E b \in Backends, t \in ThreadIds, popen \in PopenOutcomes :
          StartPopen(b, t, popen)
    \/ \E b \in Backends, t \in ThreadIds : StopCommand(b, t)
    \/ IdleStop
    \/ \E b \in Backends, t \in ThreadIds : StopCheck(b, t)
    \/ \E b \in Backends, t \in ThreadIds, kill \in KillOutcomes :
          StopKill(b, t, kill)
    \/ \E b \in Backends, t \in ThreadIds : StopFinally(b, t)
    \/ \E b \in Backends, p \in Pids : ProcessExits(b, p)

SpecThreads == InitThreads /\ [][NextThreads]_vars

\* C36: per backend, at most one spawned process is alive, and a spawned
\* process that is alive is the one the process handle refers to.
C36_OneLiveProcessPerBackend ==
    \A b \in Backends :
        /\ Cardinality(LivePopens(b)) <= 1
        /\ \A p \in LivePopens(b) : Handle(b) = p

\* ---------------------------------------------------------------------
\* The three uses of the text backend in on_message: the chat reply, the
\* summary of a web search and the interrogation of an attached image.

\* Messages that mention the character; the second also holds "search".
MentionTexts == {"Gemma look", "Gemma search cats"}
Captions == {"a cat"}

\* f"{user_context}\n\n[Image Content: {caption}]", bot.py:666-668
WithCaption(user_message, caption) ==
    (IF user_message = "" THEN "What's in this image?" ELSE user_message)
    \o "\n\n[Image Content: " \o caption \o "]"

\* CHARACTER_NAME.lower() in user_message.lower() and
\* "search" in user_message.lower()
HasSearchTrigger(user_message) ==
    \E m \in {"Gemma search cats"} :
        \/ user_message = m
        \/ \E c \in Captions : user_message = WithCaption(m, c)

\* The handler waiting in summarize_and_answer_with_persona.
Summarizing(ch) == [pc |-> "summarizing", channel |-> ch, started |-> now]

\* on_message, a mention with the search trigger whose search and scrape
\* found a page, up to the await of the summary
SearchBegin(s, ch, m) ==
    /\ ~bot_closed
    /\ req[s].pc = "idle"
    /\ kobold_api_is_online
    /\ HasSearchTrigger(m)
    /\ req' = [req EXCEPT ![s] = Summarizing(ch)]
    /\ event' = Quiet
    /\ UNCHANGED <<configVars, threadVars, listenVars, ttsVars, statsVars,
                   chat_histories, now, last_kobold_use_time,
                   last_forge_use_time, koboldVars, forgeVars, taskVars, cmd,
                   bot_closed>>

\* on_message, the summary has come back: `if final_answer:` sends it
SearchEnd(s, final_answer) ==
    /\ req[s].pc = "summarizing"
    /\ final_answer # None => kobold_online
    /\ req' = [req EXCEPT ![s] = IdleReq]
    /\ event' = Ev("on_message", IF TruthyText(final_answer)
                                 THEN "summary_sent" ELSE "summary_failed")
    /\ UNCHANGED <<configVars, threadVars, listenVars, ttsVars, statsVars,
                   chat_histories, now, last_kobold_use_time,
                   last_forge_use_time, koboldVars, forgeVars, taskVars, cmd,
                   bot_closed>>

\* on_message, a mention with an image attached, up to the await of
\* interrogate_image
InterrogateBegin(s, ch, author, m) ==
    /\ ~bot_closed
    /\ req[s].pc = "idle"
    /\ kobold_api_is_online
    /\ req' = [req EXCEPT ![s] =
                  [pc |-> "interrogating", channel |-> ch, author |-> author,
                   user_message |-> m, started |-> now]]
    /\ event' = Quiet
    /\ UNCHANGED <<configVars, threadVars, listenVars, ttsVars, statsVars,
                   chat_histories, now, last_kobold_use_time,
                   last_forge_use_time, koboldVars, forgeVars, taskVars, cmd,
                   bot_closed>>

\* on_message, the caption has come back: without one the handler
\* apologises and returns; with one the message goes on to the search or,
\* through generate_chat_response, to the chat reply.
InterrogateEnd(s, caption, cap) ==
    LET r == req[s]
        ch == r.channel
        user_message == WithCaption(r.user_message, caption[1])
        histories == IF chat_histories[ch] = None
                     THEN [chat_histories EXCEPT ![ch] = <<<<>>>>]
                     ELSE chat_histories
        history == histories[ch][1]
        injected == InjectTime(user_message)
        locals == AssemblePrompt(history, r.author, "", injected,
                                 CONTEXT_TOKEN_LIMIT)
    IN /\ r.pc = "interrogating"
       /\ caption # None => kobold_online
       /\ IF ~Truthy(caption)
          THEN /\ req' = [req EXCEPT ![s] = IdleReq]
               /\ event' = Ev("on_message", "no_caption")
               /\ UNCHANGED <<chat_histories, last_kobold_use_time>>
          ELSE IF HasSearchTrigger(user_message)
          THEN /\ req' = [req EXCEPT ![s] = Summarizing(ch)]
               /\ event' = Ev("on_message", "captioned")
               /\ UNCHANGED <<chat_histories, last_kobold_use_time>>
          ELSE /\ Len(history) + Pending(ch) + 2 <= cap
               /\ last_kobold_use_time' = StampOnEntry(now)
               /\ chat_histories' = histories
               /\ req' = [req EXCEPT ![s] =
                     [pc |-> "generating", channel |-> ch,
                      author |-> r.author, user_profile_text |-> "",
                      user_message |-> injected, attached |-> TRUE,
                      behind |-> InFlightFor(ch) \ {s}, started |-> now,
                      current_turn_text |-> locals.current_turn_text,
                      history_conversation |-> locals.history_conversation,
                      tokens_used |-> locals.tokens_used,
                      full_prompt |-> locals.full_prompt]]
               /\ event' = Ev("on_message", "captioned")
       /\ UNCHANGED <<configVars, threadVars, listenVars, ttsVars, statsVars,
                      now, last_forge_use_time, koboldVars, forgeVars,
                      taskVars, cmd, bot_closed>>

NextUse ==
    \/ \E s \in Slots, ch \in Channels :
          GenBegin(s, ch, "Al", "", "hi", MaxHistory)
    \/ \E s \in Slots, response \in {None, <<"ok">>} : GenEnd(s, response)
    \/ \E s \in Slots : ReplyDone(s)
    \/ \E s \in Slots, ch \in Channels, m \in MentionTexts :
          SearchBegin(s, ch, m)
    \/ \E s \in Slots, answer \in {None, <<"">>, <<"ok">>} :
          SearchEnd(s, answer)
    \/ \E s \in Slots, ch \in Channels, m \in MentionTexts :
          InterrogateBegin(s, ch, "Al", m)
    \/ \E s \in Slots, caption \in {None} \cup {<<c>> : c \in Captions} :
          InterrogateEnd(s, caption, MaxHistory)
    \/ Tick

SpecUse == InitChat /\ [][NextUse]_vars

\* The step in which the text backend's answer to the request of s arrives
\* and is one the handler goes on with.
RoundTripSucceeds(s) ==
    \/ /\ req[s].pc = "generating"
       /\ req'[s].pc = "replying"
       /\ req'[s].response_text # None
    \/ /\ req[s].pc = "summarizing"
       /\ event' = Ev("on_message", "summary_sent")
       /\ req'[s].pc = "idle"
    \/ /\ req[s].pc = "interrogating"
       /\ event' = Ev("on_message", "captioned")
       /\ req'[s].pc # "interrogating"

\* C37: every successful round trip to the text backend refreshes the
\* backend's last-use time, be it a chat reply, a search summary or an image
\* interrogation: when the answer has arrived, the last-use time is set and
\* is no older than the moment the request was begun.
C37_RoundTripRefreshesLastUse ==
    [][\A s \in Slots :
          RoundTripSucceeds(s) =>
             /\ last_kobold_use_time' # None
             /\ last_kobold_use_time'[1] >= req[s].started]_vars

\* C37, the chat reply alone: the round trip of generate_chat_response
\* leaves the last-use time no older than its own beginning.
ChatReplyRefreshesLastUse ==
    [][\A s \in Slots :
          (req[s].pc = "generating" /\ RoundTripSucceeds(s)) =>
             /\ last_kobold_use_time' # None
             /\ last_kobold_use_time'[1] >= req[s].started]_vars

\* ---------------------------------------------------------------------
\* C38: a message that starts with the direct chat prefix ("!gemma " and a
\* text) is a direct chat invocation: with the chat service online,
\* on_message begins the generation of a reply to the text after the
\* prefix and starts no command.
C38_DirectInvocationIsAnswered ==
    [][\A s \in Slots, ch \in Channels, content \in Contents :
          ( /\ is_direct_chat_command(content)
            /\ kobold_api_is_online
            /\ req[s].pc = "idle"
            /\ on_message(s, ch, "Al", "", content, MaxStored)) =>
             /\ req'[s].pc = "generating"
             /\ req'[s].user_message = user_message_of(content)
             /\ cmd' = cmd]_vars

\* ---------------------------------------------------------------------
\* C39: whenever persona + current turn are estimated at no more than
\* CONTEXT_TOKEN_LIMIT, the estimate of the whole prompt sent to the text
\* backend (persona, the kept turns joined by newlines, the current turn
\* and the model cue after it) is no more than CONTEXT_TOKEN_LIMIT.
C39_WholePromptWithinLimit ==
    \A s \in Slots :
        ( /\ Generating(s)
          /\ InitialTokens(req[s].current_turn_text) <= CONTEXT_TOKEN_LIMIT)
        => get_token_count(req[s].full_prompt) <= CONTEXT_TOKEN_LIMIT

\* What the budget leaves out of the prompt besides the newlines of the
\* join: the newline before the current turn and the model cue, and one
\* token for the remainders the separate estimates round away.
PromptOverhead == get_token_count("\n" \o "\n<start_of_turn>model\n") + 1

\* C39, amended: whenever persona + current turn are estimated at no more
\* than CONTEXT_TOKEN_LIMIT, the estimate of the whole prompt is over
\* CONTEXT_TOKEN_LIMIT by no more than one token for every kept turn and
\* the overhead of the newline and the model cue.
C39_WholePromptWithinLimitAndOverhead ==
    \A s \in Slots :
        ( /\ Generating(s)
          /\ InitialTokens(req[s].current_turn_text) <= CONTEXT_TOKEN_LIMIT)
        => get_token_count(req[s].full_prompt)
              <= CONTEXT_TOKEN_LIMIT + Len(req[s].history_conversation)
                 + PromptOverhead

\* A prompt within budget that keeps some turns and drops others and whose
\* estimate as a whole is over the limit.
C39_Witness ==
    \E s \in Slots :
        /\ Generating(s)
        /\ InitialTokens(req[s].current_turn_text) <= CONTEXT_TOKEN_LIMIT
        /\ Len(req[s].history_conversation) > 0
        /\ Len(req[s].history_conversation) < Len(Stored(req[s].channel))
        /\ get_token_count(req[s].full_prompt) > CONTEXT_TOKEN_LIMIT

====
